---- MODULE Spec2Model ----
(***************************************************************************)
(* QuickFileConverter: the PDF -> Word reconstruction engine and the       *)
(* downloads of the tool pages.                                             *)
(*                                                                         *)
(*   lib : convertPdfToWord of src/src/lib/pdfTools.ts (client-side        *)
(*         fallback: groupTextByPosition, analyzeLineGroup,                *)
(*         createFormattedParagraphs, sanitizeFont)                        *)
(*   cli : convertPdfToWord of the pdf-to-word CLI script kept in          *)
(*         src/scripts/Convert-PdfToWord-Office.ps1 (lines 80-314), the    *)
(*         variant that merges lines into paragraphs                       *)
(*   ui  : handleProcess of src/src/components/pages/PowerPointTools.tsx   *)
(*         with sanitize.ts and fileNameUtils.ts, and the download link of *)
(*         src/src/components/pages/Tools.tsx                              *)
(*                                                                         *)
(* Conventions.  A JavaScript string is a sequence of one-character        *)
(* strings; a character outside ASCII is written by its code point, as in  *)
(* "U+20AC".  Vertical positions (transform[5]) are integers in hundredths  *)
(* of a page unit; horizontal positions, widths and heights are integers   *)
(* in page units.  Arithmetic is exact: binary floating-point noise of the *)
(* JavaScript numbers is not modelled.  The two numbers that are not       *)
(* finite and occur in the inputs, Infinity and NaN, are the values        *)
(* Infinity and NaN below; the operators that compute with a position or   *)
(* a size say what JavaScript yields for them.                             *)
(***************************************************************************)
EXTENDS Integers, Sequences, FiniteSets, TLC

(***************************************************************************)
(* Strings                                                                 *)
(***************************************************************************)
UpperChars == <<"A","B","C","D","E","F","G","H","I","J","K","L","M",
                "N","O","P","Q","R","S","T","U","V","W","X","Y","Z">>

LowerChars == <<"a","b","c","d","e","f","g","h","i","j","k","l","m",
                "n","o","p","q","r","s","t","u","v","w","x","y","z">>

DigitChars == {"0","1","2","3","4","5","6","7","8","9"}

SeqRange(s) == {s[i] : i \in DOMAIN s}

\* \s of a JavaScript regular expression, and the characters trim() strips
IsSpace(c) == c \in {" ", "\t", "\n"}

\* [a-zA-Z]
IsLetter(c) == c \in SeqRange(UpperChars) \cup SeqRange(LowerChars)

\* \w of a JavaScript regular expression: [A-Za-z0-9_]
IsWordChar(c) == IsLetter(c) \/ c \in DigitChars \/ c = "_"

\* String.prototype.toLowerCase, one character
ToLowerChar(c) ==
  IF c \in SeqRange(UpperChars)
    THEN LowerChars[CHOOSE i \in DOMAIN UpperChars : UpperChars[i] = c]
    ELSE c

\* String.prototype.toLowerCase
ToLowerCase(s) == [i \in DOMAIN s |-> ToLowerChar(s[i])]

\* String.prototype.includes
Includes(s, sub) ==
  \E i \in 0..(Len(s) - Len(sub)) : SubSeq(s, i + 1, i + Len(sub)) = sub

\* String.prototype.trim
RECURSIVE TrimLeft(_)
TrimLeft(s) ==
  IF s # <<>> /\ IsSpace(Head(s)) THEN TrimLeft(Tail(s)) ELSE s

RECURSIVE TrimRight(_)
TrimRight(s) ==
  IF s # <<>> /\ IsSpace(s[Len(s)])
    THEN TrimRight(SubSeq(s, 1, Len(s) - 1))
    ELSE s

Trim(s) == TrimRight(TrimLeft(s))

\* Array.prototype.join(' ') of an array of strings
RECURSIVE JoinSpace(_)
JoinSpace(ss) ==
  IF ss = <<>> THEN <<>>
  ELSE IF Len(ss) = 1 THEN ss[1]
  ELSE ss[1] \o <<" ">> \o JoinSpace(Tail(ss))

(***************************************************************************)
(* sanitizeFont (pdfTools.ts)                                              *)
(***************************************************************************)
\* A font name is a record: defined = FALSE is the JavaScript undefined.
FontName(s) == [defined |-> TRUE, chars |-> s]

UndefinedFont == [defined |-> FALSE, chars |-> <<>>]

Calibri == <<"C","a","l","i","b","r","i">>

TimesNewRoman == <<"T","i","m","e","s"," ","N","e","w"," ","R","o","m","a","n">>

CourierNew == <<"C","o","u","r","i","e","r"," ","N","e","w">>

Wingdings == <<"W","i","n","g","d","i","n","g","s">>

Arial == <<"A","r","i","a","l">>

Georgia == <<"G","e","o","r","g","i","a">>

Verdana == <<"V","e","r","d","a","n","a">>

ComicSansMS == <<"C","o","m","i","c"," ","S","a","n","s"," ","M","S">>

TrebuchetMS == <<"T","r","e","b","u","c","h","e","t"," ","M","S">>

\* fontMap, in insertion order (the order Object.entries walks it)
fontMap ==
  << [key |-> <<"H","e","l","v","e","t","i","c","a">>, value |-> Calibri],
     [key |-> <<"T","i","m","e","s">>, value |-> TimesNewRoman],
     [key |-> <<"C","o","u","r","i","e","r">>, value |-> CourierNew],
     [key |-> <<"S","y","m","b","o","l">>, value |-> Wingdings],
     [key |-> <<"Z","a","p","f","D","i","n","g","b","a","t","s">>, value |-> Wingdings],
     [key |-> Arial, value |-> Arial],
     [key |-> Georgia, value |-> Georgia],
     [key |-> Verdana, value |-> Verdana],
     [key |-> <<"C","o","m","i","c">>, value |-> ComicSansMS],
     [key |-> <<"T","r","e","b","u","c","h","e","t">>, value |-> TrebuchetMS] >>

\* The families sanitizeFont names itself: the fallback and the map's values
FontFamilies == {Calibri} \cup {fontMap[i].value : i \in DOMAIN fontMap}

\* Length of the run of \w characters of s that starts at position i
RECURSIVE WordRun(_, _)
WordRun(s, i) ==
  IF i <= Len(s) /\ IsWordChar(s[i]) THEN 1 + WordRun(s, i + 1) ELSE 0

\* .replace(/\+\w+/, ''): the leftmost '+' that a word character follows is
\* removed together with the whole run of word characters after it
RemoveAdobePrefix(s) ==
  LET hits == {i \in DOMAIN s : s[i] = "+" /\ WordRun(s, i + 1) > 0}
  IN  IF hits = {} THEN s
      ELSE LET i == CHOOSE j \in hits : \A k \in hits : j <= k
           IN  SubSeq(s, 1, i - 1) \o SubSeq(s, i + 1 + WordRun(s, i + 1), Len(s))

\* [a-zA-Z0-9\s-]: the characters the second replace keeps
IsKeptFontChar(c) == IsLetter(c) \/ c \in DigitChars \/ IsSpace(c) \/ c = "-"

\* .replace(/[^a-zA-Z0-9\s-]/g, '')
RemoveSpecialChars(s) == SelectSeq(s, IsKeptFontChar)

\* for (const [key, value] of Object.entries(fontMap)): first key included
MapLookup(sanitized) ==
  LET hits == {i \in DOMAIN fontMap :
                 Includes(ToLowerCase(sanitized), ToLowerCase(fontMap[i].key))}
  IN  IF hits = {} THEN <<>>
      ELSE fontMap[CHOOSE j \in hits : \A k \in hits : j <= k].value

\* (the sanitized name returned even when nothing is left of it)
FontFallbackNone(sanitized) == sanitized

\* return sanitized || 'Calibri'
FontFallback(sanitized) == IF sanitized = <<>> THEN Calibri ELSE sanitized

sanitizeFont(fontName) ==
  IF ~fontName.defined \/ fontName.chars = <<>> THEN Calibri
  ELSE LET sanitized == RemoveSpecialChars(RemoveAdobePrefix(fontName.chars))
           mapped    == MapLookup(sanitized)
       IN  IF mapped # <<>> THEN mapped ELSE FontFallback(sanitized)

(***************************************************************************)
(* Text items of a page (pdf.js TextItem) and small helpers                *)
(***************************************************************************)
\* item.str, item.transform[4], item.transform[5] (hundredths), item.width,
\* item.height, item.fontName
TextItem(str, x, y5, width, height, fontName) ==
  [str |-> str, x |-> x, y5 |-> y5, width |-> width, height |-> height,
   fontName |-> fontName]

\* Number.POSITIVE_INFINITY: above every finite number of the model
Infinity == 1000000

\* Number.NaN
NaN == -1000000

Abs(n) == IF n < 0 THEN -n ELSE n

Max(a, b) == IF a >= b THEN a ELSE b

\* items.reduce((sum, item) => sum + item.x, 0); Infinity + x is Infinity
RECURSIVE SumX(_)
SumX(its) ==
  IF its = <<>> THEN 0
  ELSE IF Head(its).x = Infinity \/ SumX(Tail(its)) = Infinity THEN Infinity
  ELSE Head(its).x + SumX(Tail(its))

RECURSIVE Flatten(_)
Flatten(ss) == IF ss = <<>> THEN <<>> ELSE Head(ss) \o Flatten(Tail(ss))

\* Array.prototype.sort((a, b) => a.x - b.x): stable, ascending x
RECURSIVE InsertByX(_, _)
InsertByX(sorted, it) ==
  IF sorted = <<>> THEN <<it>>
  ELSE IF Head(sorted).x <= it.x THEN <<Head(sorted)>> \o InsertByX(Tail(sorted), it)
  ELSE <<it>> \o sorted

\* (the items left in the order they were placed)
SortByXNone(its) == its

RECURSIVE SortByX(_)
SortByX(its) ==
  IF its = <<>> THEN <<>>
  ELSE InsertByX(SortByX(SubSeq(its, 1, Len(its) - 1)), its[Len(its)])

\* Array.prototype.sort((a, b) => b.y - a.y): stable, descending y
RECURSIVE InsertByYDesc(_, _)
InsertByYDesc(sorted, g) ==
  IF sorted = <<>> THEN <<g>>
  ELSE IF Head(sorted).y >= g.y THEN <<Head(sorted)>> \o InsertByYDesc(Tail(sorted), g)
  ELSE <<g>> \o sorted

RECURSIVE SortByYDesc(_)
SortByYDesc(gs) ==
  IF gs = <<>> THEN <<>>
  ELSE InsertByYDesc(SortByYDesc(SubSeq(gs, 1, Len(gs) - 1)), gs[Len(gs)])

(***************************************************************************)
(* lib: groupTextByPosition (pdfTools.ts)                                  *)
(***************************************************************************)
\* const yThreshold = 1.5, in tenths of a unit
yThreshold == 15

\* item.height || 12
defaultHeight == 12

\* if (!item.str || !item.str.trim()) continue
IsSkipped(item) == Trim(item.str) = <<>>

\* Math.round(item.transform[5] * 10) / 10, in tenths of a unit (Math.round
\* rounds a half towards +infinity; Math.round(Infinity) is Infinity)
RoundY(y5) == IF y5 = Infinity THEN Infinity ELSE (y5 + 5) \div 10

\* item.height || 12: 0 and NaN are falsy
HeightOf(item) == IF item.height \in {0, NaN} THEN defaultHeight ELSE item.height

\* (the comparison taken as <=)
WithinThresholdInclusive(gy, y) == Abs(gy - y) <= yThreshold

\* Math.abs(g.y - y) < yThreshold; Infinity - Infinity is NaN, and no
\* comparison with NaN is true
WithinThreshold(gy, y) ==
  ~(gy = Infinity /\ y = Infinity) /\ Abs(gy - y) < yThreshold

\* (no line group is ever found)
FindLineGroupNone(groups, y) == 0

\* Array.from(lineGroups.values()).find(...): index of the first line group,
\* in insertion order, within the threshold; 0 when there is none
FindLineGroup(groups, y) ==
  LET hits == {i \in DOMAIN groups : WithinThreshold(groups[i].y, y)}
  IN  IF hits = {} THEN 0 ELSE CHOOSE j \in hits : \A k \in hits : j <= k

\* the object pushed onto lineGroup.items
GroupedItem(item) ==
  [str |-> item.str, x |-> item.x, width |-> item.width,
   height |-> HeightOf(item), fontName |-> item.fontName, y5 |-> item.y5]

\* lineGroups.set(y, lineGroup): the entry of an equal key, if the Map has
\* one, is replaced where it stands; otherwise the entry is added at the end
MapSet(groups, g) ==
  IF \E i \in DOMAIN groups : groups[i].y = g.y
    THEN [i \in DOMAIN groups |-> IF groups[i].y = g.y THEN g ELSE groups[i]]
    ELSE Append(groups, g)

\* the place in the Map of the entry of key y
MapIndex(groups, y) == CHOOSE i \in DOMAIN groups : groups[i].y = y

\* one iteration of the for loop over items
PlaceItem(groups, item) ==
  IF IsSkipped(item) THEN groups
  ELSE LET y     == RoundY(item.y5)
           found == FindLineGroup(groups, y)
           gs    == IF found = 0
                      THEN MapSet(groups, [y |-> y, items |-> <<>>,
                                           avgFontSize |-> HeightOf(item)])
                      ELSE groups
           at    == IF found = 0 THEN MapIndex(gs, y) ELSE found
       IN  [gs EXCEPT ![at] =
              [y |-> @.y,
               items |-> Append(@.items, GroupedItem(item)),
               avgFontSize |-> Max(@.avgFontSize, HeightOf(item))]]

RECURSIVE PlaceItems(_, _)
PlaceItems(groups, its) ==
  IF its = <<>> THEN groups
  ELSE PlaceItems(PlaceItem(groups, Head(its)), Tail(its))

\* the Map's values in insertion order, before the final sort
GroupsInInsertionOrder(its) == PlaceItems(<<>>, its)

groupTextByPosition(its, pageWidth) == SortByYDesc(GroupsInInsertionOrder(its))

(***************************************************************************)
(* lib: analyzeLineGroup (pdfTools.ts)                                     *)
(***************************************************************************)
\* if (gap > 2)
spaceGap == 2

\* const isLarge = fontSize > 14
largeSize == 14

\* const isVeryLarge = fontSize > 18
veryLargeSize == 18

\* const isSmall = fontSize < 10
smallSize == 10

\* pageWidth * 0.35, as a percentage
centerFrom == 35

\* pageWidth * 0.65, as a percentage
centerTo == 65

boldWord == <<"b","o","l","d">>

italicWord == <<"i","t","a","l","i","c">>

\* item.fontName?.toLowerCase().includes('bold') ?? false
IsBoldFont(fontName) ==
  fontName.defined /\ Includes(ToLowerCase(fontName.chars), boldWord)

\* item.fontName?.toLowerCase().includes('italic') ?? false
IsItalicFont(fontName) ==
  fontName.defined /\ Includes(ToLowerCase(fontName.chars), italicWord)

\* runs.push({ text: ' ' })
SpaceRun == [text |-> <<" ">>]

\* runs.push({ text, bold, italic, size: Math.round(item.height * 2), font });
\* Math.round(Infinity * 2) is Infinity
StyledRun(item) ==
  [text |-> item.str, bold |-> IsBoldFont(item.fontName),
   italic |-> IsItalicFont(item.fontName),
   size |-> IF item.height = Infinity THEN Infinity ELSE 2 * item.height,
   font |-> sanitizeFont(item.fontName)]

\* (a space only for the gap just above the threshold)
HasSpaceBeforeExact(its, i) ==
  i > 1 /\ its[i].x - (its[i - 1].x + its[i - 1].width) = spaceGap + 1

\* const gap = item.x - (items[i - 1].x + items[i - 1].width); gap > 2
HasSpaceBefore(its, i) ==
  i > 1 /\ its[i].x - (its[i - 1].x + its[i - 1].width) > spaceGap

\* the runs and the text pushed in iteration i of the loop over sorted items
RunsAt(its, i) ==
  (IF HasSpaceBefore(its, i) THEN <<SpaceRun>> ELSE <<>>) \o <<StyledRun(its[i])>>

TextAt(its, i) ==
  (IF HasSpaceBefore(its, i) THEN <<" ">> ELSE <<>>) \o its[i].str

LineRuns(its) == Flatten([i \in DOMAIN its |-> RunsAt(its, i)])

LineFullText(its) == Flatten([i \in DOMAIN its |-> TextAt(its, i)])

\* avgX > pageWidth * 0.35 && avgX < pageWidth * 0.65, avgX = sumX / n
IsCentered(sumX, n, pageWidth) ==
  /\ sumX * 100 > pageWidth * centerFrom * n
  /\ sumX * 100 < pageWidth * centerTo * n

\* avgX > pageWidth * 0.65
IsRightAligned(sumX, n, pageWidth) == sumX * 100 > pageWidth * centerTo * n

\* let alignment = 'left'; if (isCentered) ... ; if (isRightAligned) ...
AlignmentOf(sumX, n, pageWidth) ==
  IF IsRightAligned(sumX, n, pageWidth) THEN "right"
  ELSE IF IsCentered(sumX, n, pageWidth) THEN "center"
  ELSE "left"

\* the character class of the list pattern as the source file spells it: \s,
\* the three characters of a mis-decoded bullet (a-circumflex, euro sign,
\* cent sign), '-' and '*'
IsListMarker(c) == IsSpace(c) \/ c \in {"U+00E2", "U+20AC", "U+00A2", "-", "*"}

\* fullText.match(/^[\s...\-\*]\s+/)
MatchesList(fullText) ==
  Len(fullText) >= 2 /\ IsListMarker(fullText[1]) /\ IsSpace(fullText[2])

\* (the chain without its default: type left undefined)
TypeOfNoDefault(fontSize, isCentered, hasBold, fullText) ==
  IF fontSize > veryLargeSize /\ (isCentered \/ hasBold) THEN "heading1"
  ELSE IF fontSize > largeSize /\ (hasBold \/ isCentered) THEN "heading2"
  ELSE IF fontSize < smallSize THEN "caption"
  ELSE IF MatchesList(fullText) THEN "list"
  ELSE "undefined"

\* the if / else-if chain that sets type
TypeOf(fontSize, isCentered, hasBold, fullText) ==
  IF fontSize > veryLargeSize /\ (isCentered \/ hasBold) THEN "heading1"
  ELSE IF fontSize > largeSize /\ (hasBold \/ isCentered) THEN "heading2"
  ELSE IF fontSize < smallSize THEN "caption"
  ELSE IF MatchesList(fullText) THEN "list"
  ELSE "body"

\* analyzeLineGroup: <<>> stands for null, <<element>> for an element
analyzeLineGroup(lineGroup, pageWidth) ==
  LET its      == SortByX(lineGroup.items)
      fullText == LineFullText(its)
      hasBold  == \E i \in DOMAIN its : IsBoldFont(its[i].fontName)
      hasItal  == \E i \in DOMAIN its : IsItalicFont(its[i].fontName)
      fontSize == lineGroup.avgFontSize
      centered == IsCentered(SumX(its), Len(its), pageWidth)
  IN  IF Trim(fullText) = <<>> THEN <<>>
      ELSE << [type |-> TypeOf(fontSize, centered, hasBold, fullText),
               text |-> Trim(fullText),
               runs |-> LineRuns(its),
               alignment |-> AlignmentOf(SumX(its), Len(its), pageWidth),
               fontSize |-> fontSize,
               isLarge |-> fontSize > largeSize,
               isBold |-> hasBold,
               isItalic |-> hasItal] >>

\* lineGroups.map(group => analyzeLineGroup(group, width)).filter(el => el !== null)
AnalyzePage(groups, pageWidth) ==
  Flatten([i \in DOMAIN groups |-> analyzeLineGroup(groups[i], pageWidth)])

\* analyzeLineGroup sorts lineGroup.items in place
SortedGroup(g) == [g EXCEPT !.items = SortByX(@)]

(***************************************************************************)
(* lib: createFormattedParagraphs (pdfTools.ts)                            *)
(***************************************************************************)
\* new TextRun({text, bold, italics, size: run.size || 22, font: run.font || 'Calibri'})
\* (an undefined bold or italic is an unset one)
TextRun(run) ==
  IF "size" \in DOMAIN run
    THEN [text |-> run.text, bold |-> run.bold, italics |-> run.italic,
          size |-> IF run.size = 0 THEN 22 ELSE run.size,
          font |-> IF run.font = <<>> THEN Calibri ELSE run.font]
    ELSE [text |-> run.text, bold |-> FALSE, italics |-> FALSE,
          size |-> 22, font |-> Calibri]

IsHeading(type) == type \in {"heading1", "heading2"}

SpacingOf(element) ==
  CASE element.type = "heading1" -> [line |-> 360, before |-> 360, after |-> 180]
    [] element.type = "heading2" -> [line |-> 360, before |-> 240, after |-> 120]
    [] element.type = "caption"  ->
         [line |-> 360, before |-> IF element.isLarge THEN 120 ELSE 60, after |-> 40]
    [] element.type = "list"     -> [line |-> 240, before |-> 40, after |-> 40]
    [] OTHER ->
         [line |-> 360, before |-> IF element.isLarge THEN 120 ELSE 60, after |-> 60]

\* paragraphs.push(new Paragraph(options))
FormattedParagraph(element) ==
  [children  |-> [i \in DOMAIN element.runs |-> TextRun(element.runs[i])],
   alignment |-> CASE element.alignment = "center" -> "CENTER"
                   [] element.alignment = "right"  -> "RIGHT"
                   [] OTHER -> "LEFT",
   spacing   |-> SpacingOf(element),
   heading   |-> CASE element.type = "heading1" -> "HEADING_1"
                   [] element.type = "heading2" -> "HEADING_2"
                   [] OTHER -> "none",
   bold      |-> element.type = "heading1",
   italics   |-> element.type = "caption"]

createFormattedParagraphs(elements) ==
  [i \in DOMAIN elements |-> FormattedParagraph(elements[i])]

\* new Paragraph({ text: '', pageBreakBefore: true })
PageBreak == [text |-> <<>>, pageBreakBefore |-> TRUE]

\* the fallback paragraph of an empty document (the literal, kept whole)
NoTextParagraph ==
  [text |-> <<"No text content found. This may be a scanned image-based PDF. Consider using LibreOffice for better quality conversion.">>,
   italics |-> TRUE]

(***************************************************************************)
(* cli: the page loop's helpers (Convert-PdfToWord-Office.ps1, 110-252)    *)
(***************************************************************************)
\* const yThreshold = 2, in units
cliYThreshold == 2

\* if (gap > 3)
cliSpaceGap == 3

\* Math.abs(lineGroup.fontSize - prevFontSize) > 3
fontSizeDelta == 3

\* lineText.length < 50
shortLineLength == 50

\* if (fontSize > 16): HEADING_1
cliHeading1Size == 16

\* else if (fontSize > 14): HEADING_2
cliHeading2Size == 14

\* avgX > viewport.width * 0.3, as a percentage
cliCenterFrom == 30

\* avgX < viewport.width * 0.7, as a percentage
cliCenterTo == 70

\* paragraphText.length < 80
cliCenterMaxLength == 80

\* null (prevY, prevFontSize) is the empty tuple, a number n is <<n>>
Null == <<>>

\* Math.round(item.transform[5]), in units
CliRoundY(y5) == (y5 + 50) \div 100

CliFindLineGroup(groups, y) ==
  LET hits == {i \in DOMAIN groups : Abs(groups[i].y - y) < cliYThreshold}
  IN  IF hits = {} THEN 0 ELSE CHOOSE j \in hits : \A k \in hits : j <= k

\* one iteration of the for loop over textContent.items
CliPlaceItem(groups, item) ==
  IF IsSkipped(item) THEN groups
  ELSE LET y     == CliRoundY(item.y5)
           found == CliFindLineGroup(groups, y)
           gs    == IF found = 0
                      THEN Append(groups, [y |-> y, items |-> <<>>,
                                           fontSize |-> item.height])
                      ELSE groups
           at    == IF found = 0 THEN Len(gs) ELSE found
       IN  [gs EXCEPT ![at] =
              [y |-> @.y,
               items |-> Append(@.items, [text |-> item.str, x |-> item.x,
                                          width |-> item.width,
                                          fontSize |-> item.height]),
               fontSize |-> Max(@.fontSize, item.height)]]

RECURSIVE CliPlaceItems(_, _)
CliPlaceItems(groups, its) ==
  IF its = <<>> THEN groups
  ELSE CliPlaceItems(CliPlaceItem(groups, Head(its)), Tail(its))

\* the grouping loop followed by lineGroups.sort((a, b) => b.y - a.y)
CliLineGroups(its) == SortByYDesc(CliPlaceItems(<<>>, its))

\* const gap = item.x - (lastX + items[idx - 1].width); gap > 3
CliTextAt(its, i) ==
  (IF i > 1 /\ its[i].x - (its[i - 1].x + its[i - 1].width) > cliSpaceGap
     THEN <<" ">> ELSE <<>>) \o its[i].text

\* lineText, trimmed, of a line group (its items sorted left to right)
CliLineText(g) ==
  LET its == SortByX(g.items)
  IN  Trim(Flatten([i \in DOMAIN its |-> CliTextAt(its, i)]))

\* (the gap taken against 3 x the font size)
CliLargeGapLoose(yPrev, g) == yPrev - g.y > 3 * g.fontSize

\* yGap > lineGroup.fontSize * 1.5
CliLargeGap(yPrev, g) == 2 * (yPrev - g.y) > 3 * g.fontSize

\* prevFontSize && Math.abs(lineGroup.fontSize - prevFontSize) > 3
CliFontSizeChange(prevFs, g) ==
  prevFs # Null /\ prevFs[1] # 0 /\ Abs(g.fontSize - prevFs[1]) > fontSizeDelta

\* (the test of the line's length left out)
CliStartsNewParagraphAnyLength(yPrev, prevFs, g) ==
  IF yPrev # Null
    THEN \/ CliLargeGap(yPrev[1], g)
         \/ CliFontSizeChange(prevFs, g)
    ELSE TRUE

\* startNewParagraph
CliStartsNewParagraph(yPrev, prevFs, g) ==
  IF yPrev # Null
    THEN \/ CliLargeGap(yPrev[1], g)
         \/ CliFontSizeChange(prevFs, g)
         \/ Len(CliLineText(g)) < shortLineLength
    ELSE TRUE

\* the paragraph pushed when a line starts a new paragraph
CliFlushedParagraph(cur, firstLine, pageWidth) ==
  LET text     == JoinSpace(cur)
      fontSize == firstLine.fontSize
      sumX     == SumX(firstLine.items)
      n        == Len(firstLine.items)
  IN  [children  |-> <<[text |-> text]>>,
       heading   |-> IF fontSize > cliHeading1Size THEN "HEADING_1"
                     ELSE IF fontSize > cliHeading2Size THEN "HEADING_2"
                     ELSE "none",
       spacing   |-> [line |-> 360,
                      before |-> IF fontSize > cliHeading1Size THEN 240
                                 ELSE IF fontSize > cliHeading2Size THEN 200
                                 ELSE 120,
                      after |-> 120],
       alignment |-> IF /\ sumX * 100 > pageWidth * cliCenterFrom * n
                        /\ sumX * 100 < pageWidth * cliCenterTo * n
                        /\ Len(text) < cliCenterMaxLength
                       THEN "CENTER" ELSE "none"]

\* the paragraph pushed after the loop ("Don't forget the last paragraph")
CliLastParagraph(cur) ==
  [children |-> <<[text |-> JoinSpace(cur)]>>,
   heading |-> "none",
   spacing |-> [line |-> 360, before |-> 120, after |-> 120],
   alignment |-> "none"]

\* (the line that closes a paragraph is not pushed onto the new one)
CliSegmentStepDropLine(st, groups, k, pageWidth) ==
  LET g     == groups[k]
      text  == CliLineText(g)
      start == CliStartsNewParagraph(st.prevY, st.prevFontSize, g)
      flush == start /\ st.currentParagraph # <<>>
      first == k - Len(st.currentParagraph)
  IN  IF text = <<>> THEN st
      ELSE [currentParagraph |->
              IF flush THEN <<>> ELSE Append(st.currentParagraph, text),
            prevY |-> <<g.y>>,
            prevFontSize |-> <<g.fontSize>>,
            out |-> IF flush
                      THEN Append(st.out,
                             CliFlushedParagraph(st.currentParagraph,
                                                 groups[first], pageWidth))
                      ELSE st.out]

\* One iteration of "for (const lineGroup of lineGroups)" on line k, as a
\* function of the loop's variables
CliSegmentStep(st, groups, k, pageWidth) ==
  LET g     == groups[k]
      text  == CliLineText(g)
      start == CliStartsNewParagraph(st.prevY, st.prevFontSize, g)
      flush == start /\ st.currentParagraph # <<>>
      first == k - Len(st.currentParagraph)
  IN  IF text = <<>> THEN st
      ELSE [currentParagraph |->
              Append(IF flush THEN <<>> ELSE st.currentParagraph, text),
            prevY |-> <<g.y>>,
            prevFontSize |-> <<g.fontSize>>,
            out |-> IF flush
                      THEN Append(st.out,
                             CliFlushedParagraph(st.currentParagraph,
                                                 groups[first], pageWidth))
                      ELSE st.out]

(***************************************************************************)
(* File names (fileNameUtils.ts)                                           *)
(***************************************************************************)
Digits == <<"0","1","2","3","4","5","6","7","8","9">>

\* String(n) of an integer n >= 0, as a template literal writes it
RECURSIVE NumberToString(_)
NumberToString(n) ==
  IF n < 10 THEN <<Digits[n + 1]>>
  ELSE NumberToString(n \div 10) \o <<Digits[(n % 10) + 1]>>

\* filename.lastIndexOf('.'), counted from 1: 0 is JavaScript's -1
LastDotIndex(filename) ==
  LET dots == {i \in DOMAIN filename : filename[i] = "."}
  IN  IF dots = {} THEN 0 ELSE CHOOSE i \in dots : \A j \in dots : j <= i

getFileNameWithoutExtension(filename) ==
  IF LastDotIndex(filename) = 0 THEN filename
  ELSE SubSeq(filename, 1, LastDotIndex(filename) - 1)

getFileExtension(filename) ==
  IF LastDotIndex(filename) = 0 THEN <<>>
  ELSE SubSeq(filename, LastDotIndex(filename), Len(filename))

\* `${nameWithoutExt}-${counter}${extension}`
NumberedName(desiredName, counter) ==
  getFileNameWithoutExtension(desiredName) \o <<"-">>
    \o NumberToString(counter) \o getFileExtension(desiredName)

\* the counter the while loop stops at, entered with the given counter
RECURSIVE FreeCounter(_, _, _)
FreeCounter(desiredName, existingNames, counter) ==
  IF NumberedName(desiredName, counter) \in SeqRange(existingNames)
    THEN FreeCounter(desiredName, existingNames, counter + 1)
    ELSE counter

generateUniqueFilename(desiredName, existingNames) ==
  IF desiredName \notin SeqRange(existingNames) THEN desiredName
  ELSE NumberedName(desiredName, FreeCounter(desiredName, existingNames, 1))

(***************************************************************************)
(* Input sanitization (sanitize.ts) and the JavaScript it is fed by        *)
(***************************************************************************)
Min(a, b) == IF a <= b THEN a ELSE b

\* the leading decimal digits of a string
RECURSIVE LeadingDigits(_)
LeadingDigits(s) ==
  IF s # <<>> /\ Head(s) \in DigitChars
    THEN <<Head(s)>> \o LeadingDigits(Tail(s))
    ELSE <<>>

\* the number a string of decimal digits writes
RECURSIVE DigitsValue(_)
DigitsValue(ds) ==
  IF ds = <<>> THEN 0
  ELSE 10 * DigitsValue(SubSeq(ds, 1, Len(ds) - 1))
         + ((CHOOSE i \in DOMAIN Digits : Digits[i] = ds[Len(ds)]) - 1)

\* parseInt(s, 10): leading blanks are skipped, one sign is taken, then the
\* leading digits are read; NaN when no digit is there
parseInt(s) ==
  LET t      == TrimLeft(s)
      signed == t # <<>> /\ Head(t) \in {"+", "-"}
      ds     == LeadingDigits(IF signed THEN Tail(t) ELSE t)
  IN  IF ds = <<>> THEN NaN
      ELSE IF signed /\ Head(t) = "-" THEN 0 - DigitsValue(ds)
      ELSE DigitsValue(ds)

\* sanitizeNumber: Math.floor leaves the integers of the model as they are
sanitizeNumber(input, min, max, defaultValue) ==
  IF input \in {NaN, Infinity} THEN defaultValue
  ELSE Max(min, Min(max, input))

\* password.slice(0, 128) keeps at most this many characters
MaxPasswordLength == 128

sanitizePassword(password) ==
  IF password = <<>> THEN <<>>
  ELSE SubSeq(password, 1, Min(Len(password), MaxPasswordLength))

\* String.prototype.split(',')
RECURSIVE SplitComma(_)
SplitComma(s) ==
  LET commas == {i \in DOMAIN s : s[i] = ","}
  IN  IF commas = {} THEN <<s>>
      ELSE LET i == CHOOSE j \in commas : \A k \in commas : j <= k
           IN  <<SubSeq(s, 1, i - 1)>> \o SplitComma(SubSeq(s, i + 1, Len(s)))

\* String.prototype.endsWith
EndsWith(s, suffix) ==
  Len(s) >= Len(suffix) /\ SubSeq(s, Len(s) - Len(suffix) + 1, Len(s)) = suffix

(***************************************************************************)
(* PowerPointTools.tsx: what handleProcess computes                        *)
(***************************************************************************)
\* getPptSlideCount returns this placeholder for every file
PlaceholderSlideCount == 10

\* slideCount || 100
DefaultMaxSlide == 100

\* s => sanitizeNumber(parseInt(s.trim(), 10), 1, slideCount || 100, 1) - 1
SlideIndexOf(s, slideCount) ==
  sanitizeNumber(parseInt(Trim(s)), 1,
                 IF slideCount = 0 THEN DefaultMaxSlide ELSE slideCount, 1) - 1

\* n => !isNaN(n) && n >= 0
KeepIndex(n) == n # NaN /\ n >= 0

\* slideIndices.split(',').map(...).filter(...)
SlideIndicesOf(slideIndices, slideCount) ==
  LET parts == SplitComma(slideIndices)
  IN  SelectSeq([i \in DOMAIN parts |-> SlideIndexOf(parts[i], slideCount)],
                KeepIndex)

DotPptx == <<".","p","p","t","x">>

DotPpt == <<".","p","p","t">>

DotPdf == <<".","p","d","f">>

\* name.replace(/\.(pptx?)$/i, tag + '.$1'): the tag goes before the
\* extension, which keeps its case
TagPptName(name, tag) ==
  LET n == IF EndsWith(ToLowerCase(name), DotPptx) THEN Len(DotPptx)
           ELSE IF EndsWith(ToLowerCase(name), DotPpt) THEN Len(DotPpt)
           ELSE 0
  IN  IF n = 0 THEN name
      ELSE SubSeq(name, 1, Len(name) - n) \o tag
             \o SubSeq(name, Len(name) - n + 1, Len(name))

\* String.prototype.toUpperCase, one character
ToUpperChar(c) ==
  IF c \in SeqRange(LowerChars)
    THEN UpperChars[CHOOSE i \in DOMAIN LowerChars : LowerChars[i] = c]
    ELSE c

\* name.replace(/\.(pptx?|PPTX?)$/, '.pdf'): all lower or all upper case
PdfNameOf(name) ==
  LET upper(s) == [i \in DOMAIN s |-> ToUpperChar(s[i])]
      n == IF EndsWith(name, DotPptx) \/ EndsWith(name, upper(DotPptx))
             THEN Len(DotPptx)
           ELSE IF EndsWith(name, DotPpt) \/ EndsWith(name, upper(DotPpt))
             THEN Len(DotPpt)
           ELSE 0
  IN  IF n = 0 THEN name ELSE SubSeq(name, 1, Len(name) - n) \o DotPdf

MergedPresentation ==
  <<"m","e","r","g","e","d","-","p","r","e","s","e","n","t","a","t","i","o","n">>
    \o DotPptx

SplitPresentation ==
  <<"s","p","l","i","t","-","p","r","e","s","e","n","t","a","t","i","o","n">>
    \o DotPptx

ImagesPresentation ==
  <<"i","m","a","g","e","s","-","p","r","e","s","e","n","t","a","t","i","o","n">>
    \o DotPptx

\* `slide-${slideNumber}.png`
SlideImageName(slideNumber) ==
  <<"s","l","i","d","e","-">> \o NumberToString(slideNumber)
    \o <<".","p","n","g">>

\* the name handed to generateUniqueFilename, by operation
PptDesiredName(op, firstName) ==
  CASE op = "ppt-to-pdf"   -> PdfNameOf(firstName)
    [] op = "ppt-merge"    -> MergedPresentation
    [] op = "ppt-split"    -> SplitPresentation
    [] op = "ppt-compress" ->
         TagPptName(firstName, <<"-","c","o","m","p","r","e","s","s","e","d">>)
    [] op = "image-to-ppt" -> ImagesPresentation
    [] op = "ppt-protect"  ->
         TagPptName(firstName, <<"-","p","r","o","t","e","c","t","e","d">>)
    [] op = "ppt-unlock"   ->
         TagPptName(firstName, <<"-","u","n","l","o","c","k","e","d">>)
    [] op = "ppt-repair"   ->
         TagPptName(firstName, <<"-","r","e","p","a","i","r","e","d">>)

\* the function of powerPointTools.ts an operation awaits
PptFunctionOf(op) ==
  CASE op = "ppt-to-pdf"         -> "convertPptToPdf"
    [] op = "ppt-merge"          -> "mergePptFiles"
    [] op = "ppt-split"          -> "splitPptFile"
    [] op = "ppt-compress"       -> "compressPptFile"
    [] op = "image-to-ppt"       -> "convertImagesToPpt"
    [] op = "ppt-protect"        -> "protectPptFile"
    [] op = "ppt-unlock"         -> "unlockPptFile"
    [] op = "ppt-extract-images" -> "extractSlidesAsImages"
    [] op = "ppt-repair"         -> "repairPptFile"

NoError == "null"

\* a call of a function of powerPointTools.ts: the slide indices and the
\* password it is given (empty for the functions that take none)
PptCall(fn, indices, password) ==
  [fn |-> fn, indices |-> indices, password |-> password]

\* the synchronous part of the try block, up to the await: the error thrown
\* or the call awaited
PptRequest(op, fileNames, slideIndices, slideCount, pptPassword) ==
  LET fail(msg) == [error |-> msg, call |-> <<>>]
      call(indices, password) ==
        [error |-> NoError,
         call |-> <<PptCall(PptFunctionOf(op), indices, password)>>]
      one == Len(fileNames) = 1
      indices == SlideIndicesOf(slideIndices, slideCount)
  IN  CASE op \in {"ppt-to-pdf", "ppt-compress", "ppt-repair"} ->
             IF ~one THEN fail("Select exactly one PowerPoint file.")
             ELSE call(<<>>, <<>>)
        [] op = "ppt-merge" ->
             IF Len(fileNames) < 2
               THEN fail("Select at least two PowerPoint files to merge.")
             ELSE call(<<>>, <<>>)
        [] op = "image-to-ppt" -> call(<<>>, <<>>)
        [] op \in {"ppt-split", "ppt-extract-images"} ->
             IF ~one THEN fail("Select exactly one PowerPoint file.")
             ELSE IF Trim(slideIndices) = <<>>
               THEN fail("Enter slide indices to extract (e.g., 1,3,5).")
             ELSE IF indices = <<>> THEN fail("Invalid slide indices.")
             ELSE call(indices, <<>>)
        [] op = "ppt-protect" ->
             IF ~one THEN fail("Select exactly one PowerPoint file.")
             ELSE IF sanitizePassword(pptPassword) = <<>>
               THEN fail("Password is required and must be at least 4 characters.")
             ELSE call(<<>>, sanitizePassword(pptPassword))
        [] op = "ppt-unlock" ->
             IF ~one THEN fail("Select exactly one PowerPoint file.")
             ELSE IF sanitizePassword(pptPassword) = <<>>
               THEN fail("Password is required.")
             ELSE call(<<>>, sanitizePassword(pptPassword))

\* the for-of loop over the images of extractSlidesAsImages: each image is
\* named, clicked and recorded; the names clicked so far and the list
RECURSIVE DownloadImages(_, _)
DownloadImages(indices, st) ==
  IF indices = <<>> THEN st
  ELSE LET imgFilename ==
             generateUniqueFilename(SlideImageName(Head(indices) + 1), st.names)
       IN  DownloadImages(Tail(indices),
                          [names |-> Append(st.names, imgFilename),
                           clicked |-> Append(st.clicked, imgFilename)])

(***************************************************************************)
(* Tools.tsx: the name of the download link                                *)
(***************************************************************************)
\* baseFilename, for the operations whose name does not depend on a setting
ToolsBaseFilename(op) ==
  CASE op = "merge"        -> <<"m","e","r","g","e","d">> \o DotPdf
    [] op = "remove-pages" ->
         <<"p","a","g","e","s","-","r","e","m","o","v","e","d">> \o DotPdf
    [] op = "pdf-to-word"  ->
         <<"c","o","n","v","e","r","t","e","d",".","d","o","c","x">>
    [] OTHER               -> <<"o","u","t","p","u","t">> \o DotPdf

(***************************************************************************)
(* State                                                                   *)
(***************************************************************************)
VARIABLES
  variant,          \* "lib" or "cli": which convertPdfToWord runs
  doc,              \* the PDF: per page, textContent.items and viewport.width
  pc,               \* position in convertPdfToWord
  pageNum,          \* pageNum (lib), i (cli)
  items,            \* textContent.items of the page in hand
  pageWidth,        \* viewport.width of the page in hand
  lineGroups,       \* lineGroups of the page in hand
  pageElements,     \* lib: pageElements
  pageParagraphs,   \* lib: pageParagraphs
  allSections,      \* lib: allSections
  children,         \* the children handed to new Document(...)
  lineIdx,          \* cli: index of the next line of the for-of loop
  currentParagraph, \* cli: currentParagraph
  prevY,            \* cli: prevY
  prevFontSize,     \* cli: prevFontSize
  allParagraphs,    \* cli: allParagraphs
  results,          \* out-of-order host: per-page results, <<>> while missing
  stored,           \* out-of-order host: the pages whose result is stored
  fontIn,           \* sanitizeFont: the argument
  fontOut,          \* sanitizeFont: the value returned
  fontPc,           \* sanitizeFont: "idle", "call" or "returned"
  uiPage,           \* the page in use: "ppt" (PowerPointTools), "tools", "none"
  operation,        \* the page's operation
  files,            \* the names of the page's files
  slideIndices,     \* PowerPointTools: slideIndices
  slideCount,       \* PowerPointTools: slideCount
  pptPassword,      \* PowerPointTools: pptPassword
  processing,       \* the page's processing flag
  error,            \* the page's error, NoError for null
  pending,          \* the call handleProcess awaits, <<>> when none
  calls,            \* the calls of powerPointTools.ts made so far
  downloadedFilenames, \* downloadedFilenames.current
  downloads,        \* the name of every download started, in order
  resultUrl,        \* Tools: whether resultUrl is set
  linkName,         \* Tools: the download attribute of the rendered link
  pageRanges,       \* Tools: the text of the page ranges field
  totalPages,       \* Tools: the page count of the file to split
  history,          \* StateHistory.history
  currentIndex,     \* StateHistory.currentIndex
  maxHistorySize,   \* StateHistory.maxHistorySize
  pageCount,        \* removePagesFromPdf: pdfDoc.getPageCount() after load
  sanitizedPages,   \* removePagesFromPdf: the numbers passed as pagesToRemove
  remaining,        \* removePagesFromPdf: the pages of the saved document
  removePc,         \* removePagesFromPdf: "idle", "call", "returned"
  pagesToRemove     \* Tools: the text of the pages to remove field

pageVars == <<pageNum, items, pageWidth>>

libVars == <<lineGroups, pageElements, pageParagraphs, allSections>>

cliVars == <<lineIdx, currentParagraph, prevY, prevFontSize, allParagraphs>>

parVars == <<results, stored>>

fontVars == <<fontIn, fontOut, fontPc>>

uiVars ==
  <<uiPage, operation, files, slideIndices, slideCount, pptPassword, processing,
    error, pending, calls, downloadedFilenames, downloads, resultUrl, linkName,
    pagesToRemove>>

\* the undo history of the Tools page
historyVars == <<pageRanges, totalPages, history, currentIndex, maxHistorySize>>

removeVars == <<pageCount, sanitizedPages, remaining, removePc>>

\* the state of the Tools page besides its files and downloads
pageStateVars == <<historyVars, removeVars>>

\* the state of everything but the two converters
otherVars == <<fontVars, uiVars, pageStateVars>>

vars == <<variant, doc, pc, pageVars, libVars, cliVars, children, parVars, otherVars>>

numPages == Len(doc)

(***************************************************************************)
(* lib: convertPdfToWord, the page loop (pdfTools.ts 850-874) and the      *)
(* document (877-896)                                                      *)
(***************************************************************************)
\* await pdf.getPage(pageNum); getTextContent(); getViewport(); and the page
\* break pushed for every page after the first
LibGetPage ==
  /\ variant = "lib" /\ pc = "loop" /\ pageNum <= numPages
  /\ items' = doc[pageNum].items
  /\ pageWidth' = doc[pageNum].width
  /\ allSections' = IF pageNum > 1 THEN Append(allSections, PageBreak)
                    ELSE allSections
  /\ pc' = "group"
  /\ UNCHANGED <<variant, doc, pageNum, lineGroups, pageElements,
                 pageParagraphs, cliVars, children, parVars, otherVars>>

\* (the line groups of the page before are kept and added to)
LibGroupTextStale ==
  /\ variant = "lib" /\ pc = "group"
  /\ lineGroups' = SortByYDesc(PlaceItems(lineGroups, items))
  /\ pc' = "analyze"
  /\ UNCHANGED <<variant, doc, pageVars, pageElements, pageParagraphs,
                 allSections, cliVars, children, parVars, otherVars>>

\* const lineGroups = groupTextByPosition(textContent.items, viewport.width)
LibGroupText ==
  /\ variant = "lib" /\ pc = "group"
  /\ lineGroups' = groupTextByPosition(items, pageWidth)
  /\ pc' = "analyze"
  /\ UNCHANGED <<variant, doc, pageVars, pageElements, pageParagraphs,
                 allSections, cliVars, children, parVars, otherVars>>

\* const pageElements = lineGroups.map(analyzeLineGroup).filter(not null);
\* analyzeLineGroup sorts each group's items in place
LibAnalyze ==
  /\ variant = "lib" /\ pc = "analyze"
  /\ pageElements' = AnalyzePage(lineGroups, pageWidth)
  /\ lineGroups' = [i \in DOMAIN lineGroups |-> SortedGroup(lineGroups[i])]
  /\ pc' = "format"
  /\ UNCHANGED <<variant, doc, pageVars, pageParagraphs, allSections,
                 cliVars, children, parVars, otherVars>>

\* const pageParagraphs = createFormattedParagraphs(pageElements)
LibFormat ==
  /\ variant = "lib" /\ pc = "format"
  /\ pageParagraphs' = createFormattedParagraphs(pageElements)
  /\ pc' = "push"
  /\ UNCHANGED <<variant, doc, pageVars, lineGroups, pageElements,
                 allSections, cliVars, children, parVars, otherVars>>

\* (the page's paragraphs put in front of the output)
LibPushFront ==
  /\ variant = "lib" /\ pc = "push"
  /\ allSections' = pageParagraphs \o allSections
  /\ pc' = "next"
  /\ UNCHANGED <<variant, doc, pageVars, lineGroups, pageElements,
                 pageParagraphs, cliVars, children, parVars, otherVars>>

\* allSections.push(...pageParagraphs)
LibPush ==
  /\ variant = "lib" /\ pc = "push"
  /\ allSections' = allSections \o pageParagraphs
  /\ pc' = "next"
  /\ UNCHANGED <<variant, doc, pageVars, lineGroups, pageElements,
                 pageParagraphs, cliVars, children, parVars, otherVars>>

\* pageNum++ of the for statement
LibNextPage ==
  /\ variant = "lib" /\ pc = "next"
  /\ pageNum' = pageNum + 1
  /\ pc' = "loop"
  /\ UNCHANGED <<variant, doc, items, pageWidth, libVars, cliVars, children,
                 parVars, otherVars>>

\* children: allSections.length > 0 ? allSections : [the fallback paragraph]
DocumentChildren(sections) ==
  IF Len(sections) > 0 THEN sections ELSE <<NoTextParagraph>>

\* new Document({ sections: [{ properties, children }] })
LibBuildDocument ==
  /\ variant = "lib" /\ pc = "loop" /\ pageNum > numPages
  /\ children' = DocumentChildren(allSections)
  /\ pc' = "done"
  /\ UNCHANGED <<variant, doc, pageVars, libVars, cliVars, parVars, otherVars>>

NextLib ==
  \/ LibGetPage
  \/ LibGroupText
  \/ LibAnalyze
  \/ LibFormat
  \/ LibPush
  \/ LibNextPage
  \/ LibBuildDocument

(***************************************************************************)
(* cli: convertPdfToWord, the page loop (Convert-PdfToWord-Office.ps1      *)
(* 110-252) and the document (254-268)                                     *)
(***************************************************************************)
\* the loop's variables as CliSegmentStep takes them
CliLoopState ==
  [currentParagraph |-> currentParagraph, prevY |-> prevY,
   prevFontSize |-> prevFontSize, out |-> allParagraphs]

CliGetPage ==
  /\ variant = "cli" /\ pc = "loop" /\ pageNum <= numPages
  /\ items' = doc[pageNum].items
  /\ pageWidth' = doc[pageNum].width
  /\ allParagraphs' = IF pageNum > 1 THEN Append(allParagraphs, PageBreak)
                      ELSE allParagraphs
  /\ pc' = "group"
  /\ UNCHANGED <<variant, doc, pageNum, libVars, lineIdx, currentParagraph,
                 prevY, prevFontSize, children, parVars, otherVars>>

\* the grouping loop, the sort, and: let currentParagraph = [];
\* let prevY = null; let prevFontSize = null
CliGroupLines ==
  /\ variant = "cli" /\ pc = "group"
  /\ lineGroups' = CliLineGroups(items)
  /\ currentParagraph' = <<>>
  /\ prevY' = Null
  /\ prevFontSize' = Null
  /\ lineIdx' = 1
  /\ pc' = "lines"
  /\ UNCHANGED <<variant, doc, pageVars, pageElements, pageParagraphs,
                 allSections, allParagraphs, children, parVars, otherVars>>

\* one iteration of for (const lineGroup of lineGroups); the items of the
\* line are sorted in place
CliSegmentLine ==
  /\ variant = "cli" /\ pc = "lines" /\ lineIdx <= Len(lineGroups)
  /\ LET st == CliSegmentStep(CliLoopState, lineGroups, lineIdx, pageWidth)
     IN  /\ currentParagraph' = st.currentParagraph
         /\ prevY' = st.prevY
         /\ prevFontSize' = st.prevFontSize
         /\ allParagraphs' = st.out
  /\ lineGroups' = [lineGroups EXCEPT ![lineIdx] = SortedGroup(@)]
  /\ lineIdx' = lineIdx + 1
  /\ UNCHANGED <<variant, doc, pc, pageVars, pageElements, pageParagraphs,
                 allSections, children, parVars, otherVars>>

\* (the last paragraph pushed without the length test)
CliFlushLastAlways ==
  /\ variant = "cli" /\ pc = "lines" /\ lineIdx > Len(lineGroups)
  /\ allParagraphs' = Append(allParagraphs, CliLastParagraph(currentParagraph))
  /\ pc' = "next"
  /\ UNCHANGED <<variant, doc, pageVars, libVars, lineIdx, currentParagraph,
                 prevY, prevFontSize, children, parVars, otherVars>>

\* if (currentParagraph.length > 0) allParagraphs.push(the last paragraph)
CliFlushLast ==
  /\ variant = "cli" /\ pc = "lines" /\ lineIdx > Len(lineGroups)
  /\ allParagraphs' = IF currentParagraph # <<>>
                        THEN Append(allParagraphs, CliLastParagraph(currentParagraph))
                        ELSE allParagraphs
  /\ pc' = "next"
  /\ UNCHANGED <<variant, doc, pageVars, libVars, lineIdx, currentParagraph,
                 prevY, prevFontSize, children, parVars, otherVars>>

\* i++ of the for statement
CliNextPage ==
  /\ variant = "cli" /\ pc = "next"
  /\ pageNum' = pageNum + 1
  /\ pc' = "loop"
  /\ UNCHANGED <<variant, doc, items, pageWidth, libVars, cliVars, children,
                 parVars, otherVars>>

\* new Document({ sections: [{ properties, children: allParagraphs }] })
CliBuildDocument ==
  /\ variant = "cli" /\ pc = "loop" /\ pageNum > numPages
  /\ children' = allParagraphs
  /\ pc' = "done"
  /\ UNCHANGED <<variant, doc, pageVars, libVars, cliVars, parVars, otherVars>>

NextCli ==
  \/ CliGetPage
  \/ CliGroupLines
  \/ CliSegmentLine
  \/ CliFlushLast
  \/ CliNextPage
  \/ CliBuildDocument

(***************************************************************************)
(* A host that runs the page computations in any order, each on a result   *)
(* list of its own, and joins the results in page order.                  *)
(* JavaScript runs the synchronous part of a page to completion, so a page *)
(* is picked only when no other page is in hand.                           *)
(***************************************************************************)
\* the output list of the converter that runs
Output == IF variant = "lib" THEN allSections ELSE allParagraphs

\* any page not yet computed is taken next; its result list starts empty
ParPick(i) ==
  /\ pc = "pick" /\ i \in DOMAIN doc /\ i \notin stored
  /\ pageNum' = i
  /\ items' = doc[i].items
  /\ pageWidth' = doc[i].width
  /\ allSections' = <<>>
  /\ allParagraphs' = <<>>
  /\ pc' = "group"
  /\ UNCHANGED <<variant, doc, lineGroups, pageElements, pageParagraphs,
                 lineIdx, currentParagraph, prevY, prevFontSize, children,
                 parVars, otherVars>>

\* the page's result list is kept under the page's number
ParStore ==
  /\ pc = "next"
  /\ results' = [results EXCEPT ![pageNum] = Output]
  /\ stored' = stored \cup {pageNum}
  /\ pc' = "pick"
  /\ UNCHANGED <<variant, doc, pageVars, libVars, cliVars, children, otherVars>>

\* results joined in page order, a page break before every page but the first
RECURSIVE JoinPages(_, _)
JoinPages(res, k) ==
  IF k = 0 THEN <<>>
  ELSE JoinPages(res, k - 1) \o (IF k > 1 THEN <<PageBreak>> ELSE <<>>) \o res[k]

ParJoin ==
  /\ pc = "pick" /\ stored = DOMAIN doc
  /\ children' = IF variant = "lib"
                   THEN DocumentChildren(JoinPages(results, numPages))
                   ELSE JoinPages(results, numPages)
  /\ pc' = "done"
  /\ UNCHANGED <<variant, doc, pageVars, libVars, cliVars, parVars, otherVars>>

NextPar ==
  \/ \E i \in DOMAIN doc : ParPick(i)
  \/ LibGroupText
  \/ LibAnalyze
  \/ LibFormat
  \/ LibPush
  \/ CliGroupLines
  \/ CliSegmentLine
  \/ CliFlushLast
  \/ ParStore
  \/ ParJoin

(***************************************************************************)
(* sanitizeFont called on its own                                          *)
(***************************************************************************)
SanitizeFontCall ==
  /\ fontPc = "call"
  /\ fontOut' = sanitizeFont(fontIn)
  /\ fontPc' = "returned"
  /\ UNCHANGED <<variant, doc, pc, pageVars, libVars, cliVars, children,
                 parVars, fontIn, uiVars, pageStateVars>>

NextFont == SanitizeFontCall

(***************************************************************************)
(* PowerPointTools.tsx: handleProcess.  The part before the await runs in  *)
(* one step, the part after it when the awaited function settles.          *)
(***************************************************************************)
\* runs of handleProcess that reach their await
MaxRuns == 3

\* renders of the download link of the Tools page
MaxRenders == 3

\* clicks on the download link of the Tools page
MaxClicks == 2

engineVars ==
  <<variant, doc, pc, pageVars, libVars, cliVars, children, parVars, fontVars>>

toolsVars == <<resultUrl, linkName>>

inputVars ==
  <<uiPage, operation, files, slideIndices, slideCount, pptPassword, pagesToRemove>>

\* the click on the process button: validation and the call awaited
HandleProcessStart ==
  /\ uiPage = "ppt"
  /\ ~processing
  /\ files # <<>>
  /\ Len(calls) < MaxRuns
  /\ LET request == PptRequest(operation, files, slideIndices, slideCount,
                               pptPassword)
     IN  IF request.error # NoError
           THEN /\ error' = request.error
                /\ processing' = FALSE
                /\ UNCHANGED <<pending, calls>>
           ELSE /\ error' = NoError
                /\ processing' = TRUE
                /\ pending' = request.call
                /\ calls' = calls \o request.call
  /\ UNCHANGED <<engineVars, pageStateVars, inputVars, toolsVars, downloadedFilenames, downloads>>

\* the awaited function returns: the download is named, recorded and clicked
HandleProcessResolve ==
  /\ uiPage = "ppt"
  /\ pending # <<>>
  /\ IF operation = "ppt-extract-images"
       THEN LET st == DownloadImages(pending[1].indices,
                                     [names |-> downloadedFilenames,
                                      clicked |-> downloads])
            IN  /\ downloadedFilenames' = st.names
                /\ downloads' = st.clicked
       ELSE LET filename ==
                  generateUniqueFilename(PptDesiredName(operation, files[1]),
                                         downloadedFilenames)
            IN  /\ downloadedFilenames' = Append(downloadedFilenames, filename)
                /\ downloads' = Append(downloads, filename)
  /\ processing' = FALSE
  /\ pending' = <<>>
  /\ UNCHANGED <<engineVars, pageStateVars, inputVars, toolsVars, error, calls>>

\* the awaited function throws: catch and finally
HandleProcessReject ==
  /\ uiPage = "ppt"
  /\ pending # <<>>
  /\ error' = "An error occurred during processing."
  /\ processing' = FALSE
  /\ pending' = <<>>
  /\ UNCHANGED <<engineVars, pageStateVars, inputVars, toolsVars, calls, downloadedFilenames,
                 downloads>>

NextPpt == HandleProcessStart \/ HandleProcessResolve \/ HandleProcessReject

(***************************************************************************)
(* Tools.tsx: process and the download link.  The download attribute of    *)
(* the link is computed while the page renders.                            *)
(***************************************************************************)
\* the render of the link: the name is generated and recorded
RenderLink ==
  LET uniqueFilename ==
        generateUniqueFilename(ToolsBaseFilename(operation), downloadedFilenames)
  IN  /\ downloadedFilenames' = Append(downloadedFilenames, uniqueFilename)
      /\ linkName' = uniqueFilename

\* String.prototype.split('-')
RECURSIVE SplitDash(_)
SplitDash(s) ==
  LET dashes == {i \in DOMAIN s : s[i] = "-"}
  IN  IF dashes = {} THEN <<s>>
      ELSE LET i == CHOOSE j \in dashes : \A k \in dashes : j <= k
           IN  <<SubSeq(s, 1, i - 1)>> \o SplitDash(SubSeq(s, i + 1, Len(s)))

\* the numbers one part of the input adds to pages
PagesOfPart(part) ==
  IF "-" \in SeqRange(part)
    THEN LET ends  == SplitDash(part)
             start == parseInt(Trim(ends[1]))
             end   == parseInt(Trim(ends[2]))
         IN  IF start = NaN \/ end = NaN \/ start < 1 \/ end < 1 THEN <<>>
             ELSE [i \in 1..(end - start + 1) |-> start + i - 1]
    ELSE LET num == parseInt(Trim(part))
         IN  IF num # NaN /\ num > 0 THEN <<num>> ELSE <<>>

\* the loop over pagesToRemove.split(',')
ParsePages(text) ==
  LET parts == SplitComma(text)
  IN  Flatten([i \in DOMAIN parts |-> PagesOfPart(parts[i])])

\* sanitizePageNumbers: Math.floor leaves the integers of the model as they are
sanitizePageNumbers(pages, maxPage) ==
  LET InRange(p) == p > 0 /\ p <= maxPage
  IN  SelectSeq(pages, InRange)

\* totalPages || 1000
DefaultMaxPage == 1000

\* the argument the Tools page passes to removePagesFromPdf
SanitizedPagesOf(text, total) ==
  sanitizePageNumbers(ParsePages(text), IF total = 0 THEN DefaultMaxPage ELSE total)

\* the validation of process inside its try block: the message of the early
\* return taken, NoError when the awaited function is called
ToolsValidation(op, fileList, removeText, total) ==
  IF op = "merge"
    THEN IF Len(fileList) < 2
           THEN "Please select at least two PDF files to merge."
           ELSE NoError
  ELSE IF op = "remove-pages"
    THEN IF Len(fileList) # 1 THEN "Please select exactly one PDF file."
         ELSE IF Trim(removeText) = <<>>
           THEN "Please enter page numbers to remove (e.g., 1,3,5 or 2-4)."
         ELSE IF SanitizedPagesOf(removeText, total) = <<>>
           THEN "Invalid page numbers provided."
         ELSE NoError
  ELSE IF op = "pdf-to-word"
    THEN IF Len(fileList) # 1
           THEN "Please select exactly one PDF file to convert."
           ELSE NoError
  ELSE NoError

\* (the handler returns with processing still set)
ToolsProcessStartStuck ==
  /\ uiPage = "tools"
  /\ ~processing
  /\ files # <<>>
  /\ Len(downloadedFilenames) < MaxRenders
  /\ processing' = TRUE
  /\ error' = ToolsValidation(operation, files, pagesToRemove, totalPages)
  /\ resultUrl' = FALSE
  /\ UNCHANGED <<engineVars, pageStateVars, inputVars, linkName, pending, calls,
                 downloadedFilenames, downloads>>

\* process, up to the await or to an early return: the link is taken away,
\* and an early return leaves through finally
ToolsProcessStart ==
  /\ uiPage = "tools"
  /\ ~processing
  /\ files # <<>>
  /\ Len(downloadedFilenames) < MaxRenders
  /\ LET message == ToolsValidation(operation, files, pagesToRemove, totalPages)
     IN  /\ error' = message
         /\ processing' = (message = NoError)
  /\ resultUrl' = FALSE
  /\ UNCHANGED <<engineVars, pageStateVars, inputVars, linkName, pending, calls,
                 downloadedFilenames, downloads>>

\* process, after the await: the result URL is set and the page renders
ToolsProcessDone ==
  /\ uiPage = "tools"
  /\ processing
  /\ resultUrl' = TRUE
  /\ processing' = FALSE
  /\ RenderLink
  /\ UNCHANGED <<engineVars, pageStateVars, inputVars, error, pending, calls, downloads>>

\* the awaited function throws: catch and finally
ToolsProcessReject ==
  /\ uiPage = "tools"
  /\ processing
  /\ error' = "Processing failed."
  /\ processing' = FALSE
  /\ UNCHANGED <<engineVars, pageStateVars, inputVars, toolsVars, pending, calls,
                 downloadedFilenames, downloads>>

\* the page renders again while the link is shown
ToolsRender ==
  /\ uiPage = "tools"
  /\ resultUrl
  /\ Len(downloadedFilenames) < MaxRenders
  /\ RenderLink
  /\ UNCHANGED <<engineVars, pageStateVars, inputVars, resultUrl, processing, error, pending,
                 calls, downloads>>

\* the user clicks the link: the browser saves under the download attribute
ToolsClick ==
  /\ uiPage = "tools"
  /\ resultUrl
  /\ Len(downloads) < MaxClicks
  /\ downloads' = Append(downloads, linkName)
  /\ UNCHANGED <<engineVars, pageStateVars, inputVars, toolsVars, processing, error, pending,
                 calls, downloadedFilenames>>

NextTools ==
  \/ ToolsProcessStart
  \/ ToolsProcessDone
  \/ ToolsProcessReject
  \/ ToolsRender
  \/ ToolsClick

NextUi == NextPpt \/ NextTools

(***************************************************************************)
(* stateHistory.ts: StateHistory.  An object is the record of its three    *)
(* fields; an entry of history is [state, operation] (its timestamp is     *)
(* never read).                                                            *)
(***************************************************************************)
\* what JSON.stringify writes for a File: an object without properties
EmptyObject == <<>>

\* null, as a state returned
NullState == [null |-> TRUE]

\* the state the Tools page saves: { files, operation, pageRanges, totalPages }
Snapshot(fs, op, ranges, total) ==
  [files |-> fs, operation |-> op, pageRanges |-> ranges, totalPages |-> total]

\* JSON.parse(JSON.stringify(state)): strings and numbers come back as they
\* are, every File comes back as {}
JsonClone(state) ==
  [state EXCEPT !.files = [i \in DOMAIN state.files |-> EmptyObject]]

StateHistory(h, i, m) == [history |-> h, currentIndex |-> i, maxHistorySize |-> m]

\* new StateHistory(maxHistorySize)
NewStateHistory(m) == StateHistory(<<>>, -1, m)

canUndo(sh) == sh.currentIndex > 0

canRedo(sh) == sh.currentIndex < Len(sh.history) - 1

getCurrentState(sh) ==
  IF sh.currentIndex < 0 \/ sh.currentIndex >= Len(sh.history)
    THEN NullState
    ELSE JsonClone(sh.history[sh.currentIndex + 1].state)

\* (currentIndex incremented even when the oldest entry is shifted out)
pushAlwaysIncrement(sh, state, op) ==
  LET added == Append(SubSeq(sh.history, 1, sh.currentIndex + 1),
                      [state |-> JsonClone(state), operation |-> op])
  IN  [sh EXCEPT !.history = IF Len(added) > sh.maxHistorySize
                               THEN Tail(added) ELSE added,
                 !.currentIndex = @ + 1]

\* (the entries after currentIndex kept)
pushKeepRedo(sh, state, op) ==
  LET kept  == SubSeq(sh.history, 1, sh.currentIndex + 1)
      rest  == SubSeq(sh.history, sh.currentIndex + 2, Len(sh.history))
      added == Append(kept, [state |-> JsonClone(state), operation |-> op]) \o rest
  IN  IF Len(added) > sh.maxHistorySize
        THEN [sh EXCEPT !.history = Tail(added)]
        ELSE [sh EXCEPT !.history = added, !.currentIndex = @ + 1]

\* push: slice(0, currentIndex + 1), push, then shift or currentIndex++
push(sh, state, op) ==
  LET kept  == SubSeq(sh.history, 1, sh.currentIndex + 1)
      added == Append(kept, [state |-> JsonClone(state), operation |-> op])
  IN  IF Len(added) > sh.maxHistorySize
        THEN [sh EXCEPT !.history = Tail(added)]
        ELSE [sh EXCEPT !.history = added, !.currentIndex = @ + 1]

\* undo: the object afterwards, and the state returned
undo(sh) ==
  IF ~canUndo(sh) THEN [object |-> sh, returned |-> NullState]
  ELSE LET after == [sh EXCEPT !.currentIndex = @ - 1]
       IN  [object |-> after, returned |-> getCurrentState(after)]

redo(sh) ==
  IF ~canRedo(sh) THEN [object |-> sh, returned |-> NullState]
  ELSE LET after == [sh EXCEPT !.currentIndex = @ + 1]
       IN  [object |-> after, returned |-> getCurrentState(after)]

clear(sh) == [sh EXCEPT !.history = <<>>, !.currentIndex = -1]

size(sh) == Len(sh.history)

\* useStateHistory(initialState, maxHistorySize = 10)
DefaultMaxHistorySize == 10

\* the object behind historyRef.current
historyRef == StateHistory(history, currentIndex, maxHistorySize)

\* the object is replaced by sh
HistoryBecomes(sh) ==
  /\ history' = sh.history
  /\ currentIndex' = sh.currentIndex
  /\ maxHistorySize' = sh.maxHistorySize

\* the largest maxHistorySize an object is constructed with
MaxHistorySize == 3

\* the states pushed onto an object used on its own: JSON data
HistoryStates ==
  { Snapshot(<<>>, op, <<>>, 0) : op \in {"none", "merge", "split"} }

Push ==
  /\ uiPage = "none"
  /\ maxHistorySize > 0
  /\ \E state \in HistoryStates : HistoryBecomes(push(historyRef, state, "undefined"))
  /\ UNCHANGED <<engineVars, uiVars, pageRanges, totalPages, removeVars>>

Undo ==
  /\ uiPage = "none"
  /\ maxHistorySize > 0
  /\ HistoryBecomes(undo(historyRef).object)
  /\ UNCHANGED <<engineVars, uiVars, pageRanges, totalPages, removeVars>>

Redo ==
  /\ uiPage = "none"
  /\ maxHistorySize > 0
  /\ HistoryBecomes(redo(historyRef).object)
  /\ UNCHANGED <<engineVars, uiVars, pageRanges, totalPages, removeVars>>

Clear ==
  /\ uiPage = "none"
  /\ maxHistorySize > 0
  /\ HistoryBecomes(clear(historyRef))
  /\ UNCHANGED <<engineVars, uiVars, pageRanges, totalPages, removeVars>>

NextHistory == Push \/ Undo \/ Redo \/ Clear

(***************************************************************************)
(* Tools.tsx: the files, clearAll, handleUndo and handleRedo               *)
(***************************************************************************)
\* files on the Tools page at once
MaxFiles == 2

\* saveState calls of a session
MaxClears == 3

\* the page count getPdfPageCount reports for the file to split
SplitPageCount == 3

\* the state saved by clearAll and restored by handleUndo / handleRedo
CurrentSnapshot == Snapshot(files, operation, pageRanges, totalPages)

\* the setters of clearAll that the model holds
ClearAllSets ==
  /\ files' = <<>>
  /\ resultUrl' = FALSE
  /\ error' = NoError
  /\ pageRanges' = <<>>
  /\ totalPages' = 0
  /\ pagesToRemove' = <<>>

\* clearAll: the state of this render is saved, then everything is reset
clearAll ==
  /\ HistoryBecomes(push(historyRef, CurrentSnapshot,
                         <<"C","l","e","a","r"," ">> \o NumberToString(Len(files))
                           \o <<" ","f","i","l","e","(","s",")">>))
  /\ ClearAllSets

\* the Clear button
ClearAll ==
  /\ uiPage = "tools"
  /\ operation # "none"
  /\ ~processing
  /\ Len(history) < MaxClears
  /\ clearAll
  /\ UNCHANGED <<engineVars, uiPage, operation, slideIndices, slideCount,
                 pptPassword, processing, pending, calls, downloadedFilenames,
                 downloads, linkName, removeVars>>

\* a card of the start page: setOperation(card.key); clearAll()
SelectOperation ==
  /\ uiPage = "tools"
  /\ operation = "none"
  /\ Len(history) < MaxClears
  /\ operation' \in {"merge", "split"}
  /\ clearAll
  /\ UNCHANGED <<engineVars, uiPage, slideIndices, slideCount,
                 pptPassword, processing, pending, calls, downloadedFilenames,
                 downloads, linkName, removeVars>>

\* the Back button: setOperation(null); clearAll()
Back ==
  /\ uiPage = "tools"
  /\ operation # "none"
  /\ Len(history) < MaxClears
  /\ operation' = "none"
  /\ clearAll
  /\ UNCHANGED <<engineVars, uiPage, slideIndices, slideCount,
                 pptPassword, processing, pending, calls, downloadedFilenames,
                 downloads, linkName, removeVars>>

\* onFiles: PDF files within the size limits are appended
OnFiles ==
  /\ uiPage = "tools"
  /\ operation # "none"
  /\ \E arr \in { << <<"a">> \o DotPdf >>, << <<"b">> \o DotPdf >> } :
       /\ Len(files) + Len(arr) <= MaxFiles
       /\ files' = files \o arr
       /\ totalPages' = IF operation = "split" /\ Len(arr) = 1
                          THEN SplitPageCount ELSE totalPages
  /\ error' = NoError
  /\ resultUrl' = FALSE
  /\ UNCHANGED <<engineVars, uiPage, operation, slideIndices, slideCount,
                 pptPassword, processing, pending, calls, downloadedFilenames,
                 downloads, linkName, pageRanges, pagesToRemove, history,
                 currentIndex, maxHistorySize, removeVars>>

\* the page ranges field is typed into
SetPageRanges ==
  /\ uiPage = "tools"
  /\ operation = "split"
  /\ pageRanges' = <<"1","-","2">>
  /\ pageRanges' # pageRanges
  /\ UNCHANGED <<engineVars, uiVars, totalPages, history, currentIndex,
                 maxHistorySize, removeVars>>

\* what handleUndo and handleRedo do with the state returned
RestoreState(state) ==
  IF state = NullState
    THEN UNCHANGED <<files, operation, pageRanges, totalPages>>
    ELSE /\ files' = state.files
         /\ operation' = state.operation
         /\ pageRanges' = state.pageRanges
         /\ totalPages' = state.totalPages

\* the Undo button, disabled unless canUndo
HandleUndo ==
  /\ uiPage = "tools"
  /\ operation # "none"
  /\ canUndo(historyRef)
  /\ HistoryBecomes(undo(historyRef).object)
  /\ RestoreState(undo(historyRef).returned)
  /\ UNCHANGED <<engineVars, uiPage, slideIndices, slideCount, pptPassword,
                 processing, error, pending, calls, downloadedFilenames,
                 downloads, resultUrl, linkName, pagesToRemove, removeVars>>

\* the Redo button, disabled unless canRedo
HandleRedo ==
  /\ uiPage = "tools"
  /\ operation # "none"
  /\ canRedo(historyRef)
  /\ HistoryBecomes(redo(historyRef).object)
  /\ RestoreState(redo(historyRef).returned)
  /\ UNCHANGED <<engineVars, uiPage, slideIndices, slideCount, pptPassword,
                 processing, error, pending, calls, downloadedFilenames,
                 downloads, resultUrl, linkName, pagesToRemove, removeVars>>

NextUndo ==
  \/ SelectOperation
  \/ Back
  \/ OnFiles
  \/ SetPageRanges
  \/ ClearAll
  \/ HandleUndo
  \/ HandleRedo

(***************************************************************************)
(* removePagesFromPdf (pdfTools.ts) and the numbers the Tools page passes  *)
(***************************************************************************)
\* [...pagesToRemove].sort((a, b) => b - a)
RECURSIVE InsertDescending(_, _)
InsertDescending(sorted, n) ==
  IF sorted = <<>> THEN <<n>>
  ELSE IF Head(sorted) >= n THEN <<Head(sorted)>> \o InsertDescending(Tail(sorted), n)
  ELSE <<n>> \o sorted

RECURSIVE SortDescending(_)
SortDescending(ns) ==
  IF ns = <<>> THEN <<>>
  ELSE InsertDescending(SortDescending(SubSeq(ns, 1, Len(ns) - 1)), ns[Len(ns)])

\* pdfDoc.removePage(pageNum - 1)
removePage(pdfDoc, index) ==
  SubSeq(pdfDoc, 1, index) \o SubSeq(pdfDoc, index + 2, Len(pdfDoc))

\* the for loop over sortedPages
RECURSIVE RemoveEach(_, _)
RemoveEach(pdfDoc, sortedPages) ==
  IF sortedPages = <<>> THEN pdfDoc
  ELSE LET num == Head(sortedPages)
       IN  RemoveEach(IF num > 0 /\ num <= Len(pdfDoc)
                        THEN removePage(pdfDoc, num - 1) ELSE pdfDoc,
                      Tail(sortedPages))

\* the pages of the document saved, as their numbers in the file loaded
removePagesFromPdf(count, pages) ==
  RemoveEach([i \in 1..count |-> i], SortDescending(pages))

RemovePagesCall ==
  /\ removePc = "call"
  /\ remaining' = removePagesFromPdf(pageCount, sanitizedPages)
  /\ removePc' = "returned"
  /\ UNCHANGED <<engineVars, uiVars, historyVars, pageCount, sanitizedPages>>

NextRemove == RemovePagesCall


(***************************************************************************)
(* Inputs                                                                  *)
(***************************************************************************)
\* pages of a document
MaxPages == 2

\* text items on a page of a document
MaxDocItems == 1

\* text items on the single page of the lib page runs
MaxItems == 3

\* text items on the single page of the line runs
MaxCliItems == 3

\* chunks a font name is put together from
MaxFontChunks == 3

\* text items on the single page of the runs with items that are not finite
MaxMalformedItems == 2

\* text items on a page of the runs to completion
MaxTotalItems == 2

\* items of a page of the anchor runs
MaxAnchorItems == 3

\* items of a page of the list runs
MaxListItems == 2

\* items of a page of the gap runs
MaxGapItems == 3

PageWidths == {600}

Times == FontName(<<"T","i","m","e","s">>)

HelveticaBold == FontName(<<"H","e","l","v","e","t","i","c","a","-","B","o","l","d">>)

\* 50 and 49 characters of text
LongText == [i \in 1..shortLineLength |-> "x"]

AlmostLongText == [i \in 1..(shortLineLength - 1) |-> "y"]

\* sequences of at most n members of pool
SeqsUpTo(pool, n) == UNION {[1..k -> pool] : k \in 0..n}

PagesOf(pool, n) ==
  {[items |-> its, width |-> w] : its \in SeqsUpTo(pool, n), w \in PageWidths}

DocsOf(pool, n, maxPages) == UNION {[1..k -> PagesOf(pool, n)] : k \in 1..maxPages}

\* items of the document runs: a word, a whitespace-only item, a bold heading
\* on a line of its own
DocPool ==
  { TextItem(<<"A">>, 250, 140, 50, 12, Times),
    TextItem(<<" ">>, 100, 4, 50, 12, Times),
    TextItem(<<"H">>, 250, 4000, 50, 22, HelveticaBold) }

\* items of the lib page runs.  Rounded y: 4 -> 0.0, 140 -> 14.0, 146 -> 1.5,
\* 280 -> 2.8, 4000 -> 40.0; x = 390 is 0.65 of the page width 600
PagePool ==
  { TextItem(<<"A">>, 250, 4, 50, 12, Times),
    TextItem(<<"B">>, 250, 140, 50, 12, Times),
    TextItem(<<"C">>, 100, 280, 150, 12, Times),
    TextItem(<<"D">>, 390, 146, 50, 12, Times),
    TextItem(<<"E">>, 500, 4000, 50, 9, Times),
    TextItem(<<" ">>, 100, 4, 50, 12, Times),
    TextItem(<<"H">>, 250, 4000, 50, 22, HelveticaBold),
    TextItem(<<"-", " ", "u">>, 100, 140, 50, 0, UndefinedFont) }

\* items of the line runs.  Lines at y = 100, 85, 60 and 70 units; the
\* gap 100 -> 85 is below 1.5 x 12, the gaps 85 -> 60 and 100 -> 70 above it
CliPool ==
  { TextItem(LongText, 100, 10000, 300, 12, Times),
    TextItem(LongText, 100, 8549, 300, 12, Times),
    TextItem(LongText, 100, 6000, 300, 12, Times),
    TextItem(LongText, 100, 7000, 300, 16, Times),
    TextItem(AlmostLongText, 100, 8200, 300, 12, Times),
    TextItem(<<"A">>, 250, 8500, 50, 12, Times),
    TextItem(<<" ">>, 100, 10000, 50, 12, Times),
    TextItem(<<"B">>, 404, 10040, 50, 0, HelveticaBold) }

\* items of the anchor runs.  Rounded y in pdfTools.ts: 0.0, 1.0, 1.5, 2.8 and
\* 40.0; in the CLI script: 0, 1, 1, 3 and 40
AnchorPool ==
  { TextItem(<<"A">>, 250, 4, 50, 12, Times),
    TextItem(<<"B">>, 100, 100, 50, 12, Times),
    TextItem(<<"C">>, 300, 146, 50, 12, Times),
    TextItem(<<"D">>, 400, 280, 50, 12, Times),
    TextItem(<<"E">>, 100, 4000, 50, 12, Times) }

\* items of the list runs, each on a line of its own: lines led by a bullet
\* (U+2022), a dash and an asterisk with a blank after it, a dash without a
\* blank, a line led by two blanks, a line led by a euro sign, a small line
\* led by a dash, and a bold centered heading
ListPool ==
  { TextItem(<<"U+2022", " ", "x">>, 100, 4, 50, 12, Times),
    TextItem(<<"-", " ", "x">>, 100, 1000, 50, 12, Times),
    TextItem(<<"*", " ", "x">>, 100, 2000, 50, 12, Times),
    TextItem(<<"-", "x">>, 100, 3000, 50, 12, Times),
    TextItem(<<" ", " ", "x">>, 100, 4000, 50, 12, Times),
    TextItem(<<"U+20AC", " ", "5">>, 100, 5000, 50, 12, Times),
    TextItem(<<"-", " ", "s">>, 100, 6000, 50, 9, Times),
    TextItem(<<"H">>, 250, 7000, 50, 22, HelveticaBold) }

\* items of the gap runs, all of width 50 on one line.  After the item at
\* x = 100 the gaps are -5, 0, 2, 3 and 4; 203 and 207 are 3 and 7 after the
\* item at 150, 0 and 4 after the item at 153
GapPool ==
  { TextItem(<<"A">>, 100, 4, 50, 12, Times),
    TextItem(<<"B">>, 145, 4, 50, 12, Times),
    TextItem(<<"C">>, 150, 4, 50, 12, Times),
    TextItem(<<"D">>, 152, 4, 50, 12, Times),
    TextItem(<<"E">>, 153, 4, 50, 12, Times),
    TextItem(<<"F">>, 154, 4, 50, 12, Times),
    TextItem(<<"G">>, 203, 4, 50, 12, Times),
    TextItem(<<"H">>, 207, 4, 50, 12, Times) }

\* items of the runs with positions and sizes that are not finite: two finite
\* items on two lines, and items of y, x and height Infinity and of height
\* NaN.  (An x or y of NaN makes the comparison function of a sort
\* inconsistent, which leaves the order to the implementation; such items are
\* not among the inputs.)
MalformedPool ==
  { TextItem(<<"A">>, 250, 4, 50, 12, Times),
    TextItem(<<"B">>, 100, 4000, 50, 12, Times),
    TextItem(<<"Y">>, 100, Infinity, 50, 12, Times),
    TextItem(<<"X">>, Infinity, 4, 50, 12, Times),
    TextItem(<<"S">>, 100, 4, 50, Infinity, Times),
    TextItem(<<"N">>, 100, 4000, 50, NaN, Times) }

\* items of the runs to completion: an undefined and an empty font name, a
\* height and a width of 0, a negative x, items on top of each other, a list
\* marker, a long line, a blank item, a large bold item
TotalPool ==
  { TextItem(<<"A">>, 250, 4, 50, 12, UndefinedFont),
    TextItem(<<"-", " ", "u">>, -20, 4, 0, 0, FontName(<<>>)),
    TextItem(<<"B">>, 250, 140, 50, 9, Times),
    TextItem(LongText, 100, 4000, 300, 12, Times),
    TextItem(<<" ">>, 100, 4, 50, 12, Times),
    TextItem(<<"H">>, 250, 6000, 50, 22, HelveticaBold) }

\* chunks of font names: a subset tag, the '+', family names in mixed case,
\* style suffixes, characters outside ASCII, punctuation
FontChunks ==
  { <<"A","B","C","D","E","F">>, <<"+">>, <<"H","e","l","v","e","t","i","c","a">>,
    <<"T","I","M","E","S">>, <<"-">>, <<"B","o","l","d">>, <<"G","a","r","a","m","o","n","d">>,
    <<"U+00E9">>, <<"U+5B57">>, <<" ">>, <<"_">>, <<"Z","a","p","f","D","i","n","g","b","a","t","s">> }

FontInputs ==
  {UndefinedFont} \cup
  {FontName(Flatten(cs)) : cs \in SeqsUpTo(FontChunks, MaxFontChunks)}

\* PptOperation, but for ppt-watermark
PptOperations ==
  {"ppt-to-pdf", "ppt-merge", "ppt-split", "ppt-compress", "image-to-ppt",
   "ppt-protect", "ppt-unlock", "ppt-extract-images", "ppt-repair"}

\* the operations of the Tools page whose download has a fixed name
ToolsOperations == {"merge", "remove-pages", "pdf-to-word"}

\* the names of the files added to the PowerPoint page
PptFilePool ==
  { <<>>,
    << <<"a">> \o DotPptx >>,
    << <<"a",".","P","P","T">> >>,
    << <<"a">> \o DotPptx, <<"b">> \o DotPpt >> }

\* the names of the images added for image-to-ppt
ImageFilePool == { <<>>, << <<"a",".","p","n","g">> >> }

\* the names of the files added to the Tools page
ToolsFilePool ==
  { <<>>, << <<"a">> \o DotPdf >>, << <<"a">> \o DotPdf, <<"b">> \o DotPdf >> }

\* what the user types into the pages to remove field
PagesToRemoveInputs == { <<>>, <<"x">>, <<"1">>, <<"1","-","3",",","2">> }

\* what the user types into the slide indices field
SlideIndexInputs ==
  { <<"1">>, <<"1",",","1">>, <<"2",","," ","3">>, <<"0">>, <<"1","1">>,
    <<"x">>, <<" ">>, <<"2",",","x">>, <<"1","0","1">>, <<"-","3">> }

\* what the user types into the password field
PasswordInputs ==
  { <<>>, <<"a">>, <<"a","b","c">>, <<"a","b","c","d">>,
    <<"a","b","c","d","e">> }

(***************************************************************************)
(* Specifications                                                          *)
(***************************************************************************)
EngineInit(variants, docs, start) ==
  /\ variant \in variants
  /\ doc \in docs
  /\ pc = start
  /\ pageNum = 1
  /\ items = <<>>
  /\ pageWidth = 0
  /\ lineGroups = <<>>
  /\ pageElements = <<>>
  /\ pageParagraphs = <<>>
  /\ allSections = <<>>
  /\ children = <<>>
  /\ lineIdx = 1
  /\ currentParagraph = <<>>
  /\ prevY = Null
  /\ prevFontSize = Null
  /\ allParagraphs = <<>>
  /\ results = [i \in DOMAIN doc |-> <<>>]
  /\ stored = {}

FontIdle == fontIn = UndefinedFont /\ fontOut = <<>> /\ fontPc = "idle"

UiIdle ==
  /\ uiPage = "none"
  /\ operation = "none"
  /\ files = <<>>
  /\ slideIndices = <<>>
  /\ slideCount = 0
  /\ pptPassword = <<>>
  /\ processing = FALSE
  /\ error = NoError
  /\ pending = <<>>
  /\ calls = <<>>
  /\ downloadedFilenames = <<>>
  /\ downloads = <<>>
  /\ resultUrl = FALSE
  /\ linkName = <<>>
  /\ pagesToRemove = <<>>

HistoryIdle ==
  /\ pageRanges = <<>>
  /\ totalPages = 0
  /\ history = <<>>
  /\ currentIndex = -1
  /\ maxHistorySize = 0

RemoveIdle ==
  /\ pageCount = 0
  /\ sanitizedPages = <<>>
  /\ remaining = <<>>
  /\ removePc = "idle"

PageIdle == HistoryIdle /\ RemoveIdle

\* a document of up to MaxPages pages, converted by either converter
Init ==
  /\ EngineInit({"lib", "cli"}, DocsOf(DocPool, MaxDocItems, MaxPages), "loop")
  /\ FontIdle
  /\ UiIdle
  /\ PageIdle

Next == NextLib \/ NextCli

Spec == Init /\ [][Next]_vars

\* one page, converted by pdfTools.ts
InitPage ==
  /\ EngineInit({"lib"}, DocsOf(PagePool, MaxItems, 1), "loop")
  /\ FontIdle
  /\ UiIdle
  /\ PageIdle

SpecPage == InitPage /\ [][NextLib]_vars

\* one page of lines of text, converted by either converter
InitLines ==
  /\ EngineInit({"lib", "cli"}, DocsOf(CliPool, MaxCliItems, 1), "loop")
  /\ FontIdle
  /\ UiIdle
  /\ PageIdle

SpecLines == InitLines /\ [][Next]_vars

\* the pages of a document computed in any order and joined
InitPar ==
  /\ EngineInit({"lib", "cli"}, DocsOf(DocPool, MaxDocItems, MaxPages), "pick")
  /\ FontIdle
  /\ UiIdle
  /\ PageIdle

SpecPar == InitPar /\ [][NextPar]_vars

\* one page of unusual items, converted by either converter
InitTotal ==
  /\ EngineInit({"lib", "cli"}, DocsOf(TotalPool, MaxTotalItems, 1), "loop")
  /\ FontIdle
  /\ UiIdle
  /\ PageIdle

SpecTotal == InitTotal /\ [][Next]_vars

\* one page with items that are not finite, converted by pdfTools.ts
InitMalformed ==
  /\ EngineInit({"lib"}, DocsOf(MalformedPool, MaxMalformedItems, 1), "loop")
  /\ FontIdle
  /\ UiIdle
  /\ PageIdle

SpecMalformed == InitMalformed /\ [][NextLib]_vars

\* one page of items on lines close to each other, converted by either
\* converter
InitAnchors ==
  /\ EngineInit({"lib", "cli"}, DocsOf(AnchorPool, MaxAnchorItems, 1), "loop")
  /\ FontIdle
  /\ UiIdle
  /\ PageIdle

SpecAnchors == InitAnchors /\ [][Next]_vars

\* one page of lines with and without a list marker, converted by pdfTools.ts
InitList ==
  /\ EngineInit({"lib"}, DocsOf(ListPool, MaxListItems, 1), "loop")
  /\ FontIdle
  /\ UiIdle
  /\ PageIdle

SpecList == InitList /\ [][NextLib]_vars

\* one line of items at chosen gaps, converted by either converter
InitGap ==
  /\ EngineInit({"lib", "cli"}, DocsOf(GapPool, MaxGapItems, 1), "loop")
  /\ FontIdle
  /\ UiIdle
  /\ PageIdle

SpecGap == InitGap /\ [][Next]_vars

\* sanitizeFont on a font name
InitFont ==
  /\ EngineInit({"lib"}, {<<>>}, "idle")
  /\ fontIn \in FontInputs
  /\ fontOut = <<>>
  /\ fontPc = "call"
  /\ UiIdle
  /\ PageIdle

SpecFont == InitFont /\ [][NextFont]_vars

\* a session of the PowerPoint page or of the Tools page
InitUi ==
  /\ EngineInit({"lib"}, {<<>>}, "idle")
  /\ FontIdle
  /\ uiPage \in {"ppt", "tools"}
  /\ operation \in IF uiPage = "ppt" THEN PptOperations ELSE ToolsOperations
  /\ files \in IF uiPage = "tools" THEN ToolsFilePool
               ELSE IF operation = "image-to-ppt" THEN ImageFilePool
               ELSE PptFilePool
  /\ slideIndices \in IF operation \in {"ppt-split", "ppt-extract-images"}
                        THEN SlideIndexInputs ELSE {<<>>}
  /\ slideCount \in IF uiPage = "ppt" /\ Len(files) = 1
                      THEN {0, PlaceholderSlideCount} ELSE {0}
  /\ pptPassword \in IF operation \in {"ppt-protect", "ppt-unlock"}
                       THEN PasswordInputs ELSE {<<>>}
  /\ processing = FALSE
  /\ error = NoError
  /\ pending = <<>>
  /\ calls = <<>>
  /\ downloadedFilenames = <<>>
  /\ downloads = <<>>
  /\ resultUrl = FALSE
  /\ linkName = <<>>
  /\ pagesToRemove \in IF uiPage = "tools" /\ operation = "remove-pages"
                         THEN PagesToRemoveInputs ELSE {<<>>}
  /\ PageIdle

SpecUi == InitUi /\ [][NextUi]_vars

\* the awaited function of a run settles: it returns or it throws
Settles ==
  \/ HandleProcessReject
  \/ ToolsProcessReject
  \/ HandleProcessResolve
  \/ ToolsProcessDone

\* a session in which every awaited function settles
SpecUiLive == SpecUi /\ WF_vars(Settles)

\* a StateHistory object used on its own
InitHistory ==
  /\ EngineInit({"lib"}, {<<>>}, "idle")
  /\ FontIdle
  /\ UiIdle
  /\ RemoveIdle
  /\ pageRanges = <<>>
  /\ totalPages = 0
  /\ history = <<>>
  /\ currentIndex = -1
  /\ maxHistorySize \in 1..MaxHistorySize

SpecHistory == InitHistory /\ [][NextHistory]_vars

\* a session of the Tools page from its start page
InitUndo ==
  /\ EngineInit({"lib"}, {<<>>}, "idle")
  /\ FontIdle
  /\ uiPage = "tools"
  /\ operation = "none"
  /\ files = <<>>
  /\ slideIndices = <<>>
  /\ slideCount = 0
  /\ pptPassword = <<>>
  /\ processing = FALSE
  /\ error = NoError
  /\ pending = <<>>
  /\ calls = <<>>
  /\ downloadedFilenames = <<>>
  /\ downloads = <<>>
  /\ resultUrl = FALSE
  /\ linkName = <<>>
  /\ pagesToRemove = <<>>
  /\ RemoveIdle
  /\ pageRanges = <<>>
  /\ totalPages = 0
  /\ history = NewStateHistory(DefaultMaxHistorySize).history
  /\ currentIndex = NewStateHistory(DefaultMaxHistorySize).currentIndex
  /\ maxHistorySize = DefaultMaxHistorySize

SpecUndo == InitUndo /\ [][NextUndo]_vars

\* the largest page count of a file given to removePagesFromPdf
MaxPdfPages == 3

\* the longest list of page numbers passed directly
MaxRemoveList == 3

\* what the user types into the pages to remove field
RemoveInputs ==
  { <<"1","-","3",",","2">>, <<"2",",","2">>, <<"3",",","1">>, <<"1","-","2">>,
    <<"2","-","1">>, <<"x">>, <<"-","3">>, <<"0",","," ","2">> }

\* the lists of numbers passed to removePagesFromPdf
RemoveLists ==
  UNION { [1..n -> 0..(MaxPdfPages + 1)] : n \in 0..MaxRemoveList }
    \cup { SanitizedPagesOf(text, 0) : text \in RemoveInputs }

\* removePagesFromPdf called on a file of up to MaxPdfPages pages
InitRemove ==
  /\ EngineInit({"lib"}, {<<>>}, "idle")
  /\ FontIdle
  /\ UiIdle
  /\ HistoryIdle
  /\ pageCount \in 1..MaxPdfPages
  /\ sanitizedPages \in RemoveLists
  /\ remaining = <<>>
  /\ removePc = "call"

SpecRemove == InitRemove /\ [][NextRemove]_vars

(***************************************************************************)
(* The page computations as functions of a page                            *)
(***************************************************************************)
\* lib: the body of the page loop after the page break (866-873)
LibPageParagraphs(page) ==
  createFormattedParagraphs(
    AnalyzePage(groupTextByPosition(page.items, page.width), page.width))

\* cli: the for-of loop over the line groups, from line k on
RECURSIVE CliSegmentFrom(_, _, _, _)
CliSegmentFrom(st, groups, k, width) ==
  IF k > Len(groups) THEN st
  ELSE CliSegmentFrom(CliSegmentStep(st, groups, k, width), groups, k + 1, width)

\* cli: the body of the page loop after the page break (125-251)
CliPageParagraphs(page) ==
  LET st == CliSegmentFrom([currentParagraph |-> <<>>, prevY |-> Null,
                            prevFontSize |-> Null, out |-> <<>>],
                           CliLineGroups(page.items), 1, page.width)
  IN  IF st.currentParagraph # <<>>
        THEN Append(st.out, CliLastParagraph(st.currentParagraph))
        ELSE st.out

PageParagraphsOf(page) ==
  IF variant = "lib" THEN LibPageParagraphs(page) ELSE CliPageParagraphs(page)

\* the items of the page in hand that groupTextByPosition does not skip
Kept == {i \in DOMAIN items : ~IsSkipped(items[i])}

\* items i and j of the page in hand lie in one line group
SameLine(i, j) ==
  \E g \in DOMAIN lineGroups :
    /\ GroupedItem(items[i]) \in SeqRange(lineGroups[g].items)
    /\ GroupedItem(items[j]) \in SeqRange(lineGroups[g].items)

(***************************************************************************)
(* C1                                                                      *)
(***************************************************************************)
\* C1 as stated: after groupTextByPosition, any two non-empty fragments whose
\* y differ by less than 1.5 are in the same line, and any two whose y differ
\* by 1.5 or more are not.
C1_SameLineIffWithinThreshold ==
  pc = "analyze" =>
    \A i, j \in Kept :
      /\ Abs(items[i].y5 - items[j].y5) < 10 * yThreshold => SameLine(i, j)
      /\ Abs(items[i].y5 - items[j].y5) >= 10 * yThreshold => ~SameLine(i, j)

\* C1 as amended: after groupTextByPosition, whatever the input order, every
\* non-empty fragment lies in exactly one line; every fragment of a line has
\* its rounded y less than 1.5 from the line's anchor (the rounded y of the
\* first fragment placed in it); so when the rounded y of all non-empty
\* fragments are pairwise less than 1.5 apart they all share one line, and two
\* fragments whose rounded y are more than 3.0 apart never share a line.
C1_AnchoredClustering ==
  pc = "analyze" =>
    /\ \A i \in Kept :
         Cardinality({g \in DOMAIN lineGroups :
                        GroupedItem(items[i]) \in SeqRange(lineGroups[g].items)}) = 1
    /\ \A g \in DOMAIN lineGroups :
         /\ lineGroups[g].items # <<>>
         /\ \A k \in DOMAIN lineGroups[g].items :
              Abs(RoundY(lineGroups[g].items[k].y5) - lineGroups[g].y) < yThreshold
    /\ (\A i, j \in Kept :
          Abs(RoundY(items[i].y5) - RoundY(items[j].y5)) < yThreshold)
         => Len(lineGroups) <= 1
    /\ \A i, j \in Kept :
         Abs(RoundY(items[i].y5) - RoundY(items[j].y5)) > 2 * yThreshold
           => ~SameLine(i, j)

\* a page grouped into two lines or more, one of them holding fragments of
\* different y
C1_Witness ==
  /\ pc = "analyze"
  /\ Len(lineGroups) >= 2
  /\ \E i, j \in Kept : items[i].y5 # items[j].y5 /\ SameLine(i, j)

(***************************************************************************)
(* C2                                                                      *)
(***************************************************************************)
\* the items of the page in hand in the order f
Permuted(f) == [items |-> [i \in DOMAIN items |-> items[f[i]]], width |-> pageWidth]

\* C2: the paragraphs of a page are the same for every order of its fragments.
C2_OrderInsensitive ==
  pc = "push" =>
    \A f \in Permutations(DOMAIN items) :
      LibPageParagraphs(Permuted(f)) = pageParagraphs

(***************************************************************************)
(* C3                                                                      *)
(***************************************************************************)
\* s is t with some characters left out
RECURSIVE IsSubsequence(_, _)
IsSubsequence(s, t) ==
  IF s = <<>> THEN TRUE
  ELSE IF t = <<>> THEN FALSE
  ELSE IF Head(s) = Head(t) THEN IsSubsequence(Tail(s), Tail(t))
  ELSE IsSubsequence(s, Tail(t))

\* C3 as stated: sanitizeFont returns a member of its fixed family set.
C3_ClosedFamilySet == fontPc = "returned" => fontOut \in FontFamilies

\* C3 as amended: for every input (the empty string, undefined and names with
\* characters outside ASCII included) sanitizeFont returns one non-empty
\* name: 'Calibri' for an undefined or empty name; otherwise either a member
\* of its fixed family set, or what is left of the input name itself, made of
\* letters, digits, whitespace and hyphens only and holding none of the
\* table's keys.
C3_TotalNonEmpty ==
  fontPc = "returned" =>
    /\ fontOut # <<>>
    /\ (~fontIn.defined \/ fontIn.chars = <<>>) => fontOut = Calibri
    /\ fontOut \notin FontFamilies =>
         /\ IsSubsequence(fontOut, fontIn.chars)
         /\ \A i \in DOMAIN fontOut : IsKeptFontChar(fontOut[i])
         /\ \A k \in DOMAIN fontMap :
              ~Includes(ToLowerCase(fontOut), ToLowerCase(fontMap[k].key))

\* a name outside the fixed family set is returned
C3_Witness == fontPc = "returned" /\ fontOut \notin FontFamilies

(***************************************************************************)
(* C4                                                                      *)
(***************************************************************************)
AlignmentRank(a) == CASE a = "left" -> 0 [] a = "center" -> 1 [] a = "right" -> 2

\* the average x of line i is below that of line j
AvgXBelow(i, j) ==
  SumX(lineGroups[i].items) * Len(lineGroups[j].items)
    < SumX(lineGroups[j].items) * Len(lineGroups[i].items)

\* C4: of two lines of a page, the one of the greater average x never has the
\* earlier alignment in the order left, center, right.
C4_AlignmentMonotone ==
  (pc = "format" /\ Len(pageElements) = Len(lineGroups)) =>
    \A i, j \in DOMAIN lineGroups :
      AvgXBelow(i, j) =>
        AlignmentRank(pageElements[i].alignment)
          <= AlignmentRank(pageElements[j].alignment)

(***************************************************************************)
(* C5                                                                      *)
(***************************************************************************)
\* the paragraphs of every page of the document, by page
PageResults == [i \in DOMAIN doc |-> PageParagraphsOf(doc[i])]

\* C5: the emitted sequence is the paragraphs of page 1, a page break, the
\* paragraphs of page 2, a page break, ... in page order: every paragraph of
\* page i comes before every paragraph of page i + 1, with a page break
\* between, and nothing is reordered across pages.
C5_PageOrderPreserved ==
  pc = "done" =>
    /\ Output = JoinPages(PageResults, numPages)
    /\ Cardinality({k \in DOMAIN Output : Output[k] = PageBreak}) = numPages - 1

\* a finished document of two pages or more whose first two pages both have
\* paragraphs, and not the same ones
C5_Witness ==
  /\ pc = "done"
  /\ numPages >= 2
  /\ PageResults[1] # <<>>
  /\ PageResults[2] # <<>>
  /\ PageResults[1] # PageResults[2]

(***************************************************************************)
(* C6                                                                      *)
(***************************************************************************)
\* a string of whitespace only (the empty string included)
IsBlank(str) == \A i \in DOMAIN str : IsSpace(str[i])

\* the page in hand has no non-empty fragment
EmptyPageInHand ==
  /\ pc \in {"group", "analyze", "format", "push", "lines", "next"}
  /\ \A i \in DOMAIN items : IsBlank(items[i].str)

\* C6: while a page with no non-empty fragment is in hand, no step adds a
\* paragraph to the output, the list of paragraphs made for the page (lib)
\* and the paragraph in progress (cli) are empty, and the conversion goes on
\* towards the next page.
C6_EmptyPageNoParagraphs ==
  [][EmptyPageInHand =>
       /\ Output' = Output
       /\ pc = "format" => pageParagraphs' = <<>>
       /\ pc \in {"group", "lines"} => currentParagraph' = <<>>
       /\ pc' \in {"analyze", "format", "push", "lines", "next", "loop"}]_vars

\* a page with items, all of them whitespace, has been gone through
C6_Witness ==
  /\ pc = "next"
  /\ items # <<>>
  /\ \A i \in DOMAIN items : IsBlank(items[i].str)

(***************************************************************************)
(* C7                                                                      *)
(***************************************************************************)
\* no page of the document has a non-empty fragment
AllPagesEmpty ==
  \A p \in DOMAIN doc : \A i \in DOMAIN doc[p].items : IsBlank(doc[p].items[i].str)

\* C7: when no page has a non-empty fragment, the document's body is the
\* 'No text content found' paragraph, for any number of pages.
C7_FallbackForEmptyDocument ==
  (variant = "lib" /\ pc = "done" /\ AllPagesEmpty) => children = <<NoTextParagraph>>

(***************************************************************************)
(* C8                                                                      *)
(***************************************************************************)
\* the text of a lib paragraph: its runs' texts put together
ParagraphText(p) == Flatten([i \in DOMAIN p.children |-> p.children[i].text])

\* lines k - 1 and k of the page in hand are more than 1.5 x the font size of
\* line k apart (lib anchors are in tenths of a unit, cli anchors in units)
GapAbove(k) ==
  IF variant = "lib"
    THEN 2 * (lineGroups[k - 1].y - lineGroups[k].y) > 30 * lineGroups[k].avgFontSize
    ELSE 2 * (lineGroups[k - 1].y - lineGroups[k].y) > 3 * lineGroups[k].fontSize

\* C8: two consecutive lines more than 1.5 x the second line's font size
\* apart end up in two separate paragraphs.  cli: the step that takes the
\* second line closes the paragraph in progress, which ends with the first
\* line, and starts a new one with the second line alone; the page emits at
\* least one paragraph more than it has such gaps.  lib: the two lines are two
\* consecutive paragraphs of the page.
C8_GapSeparatesParagraphs ==
  /\ (variant = "cli" /\ pc = "lines" /\ lineIdx >= 3 /\ GapAbove(lineIdx - 1)) =>
       /\ currentParagraph = <<CliLineText(lineGroups[lineIdx - 1])>>
       /\ allParagraphs # <<>>
       /\ EndsWith(allParagraphs[Len(allParagraphs)].children[1].text,
                   CliLineText(lineGroups[lineIdx - 2]))
  /\ (variant = "cli" /\ pc = "next" /\ pageNum = 1 /\ lineGroups # <<>>) =>
       Len(allParagraphs) >= 1 + Cardinality({k \in 2..Len(lineGroups) : GapAbove(k)})
  /\ (variant = "lib" /\ pc = "push") =>
       \A k \in 2..Len(lineGroups) :
         GapAbove(k) =>
           /\ Len(pageParagraphs) >= k
           /\ ParagraphText(pageParagraphs[k - 1]) = LineFullText(lineGroups[k - 1].items)
           /\ ParagraphText(pageParagraphs[k]) = LineFullText(lineGroups[k].items)

\* cli: the second of two long lines of one font size, more than 1.5 x that
\* size below the first, has just been taken
C8_Witness ==
  /\ variant = "cli" /\ pc = "lines" /\ lineIdx = 3
  /\ GapAbove(2)
  /\ lineGroups[1].fontSize = lineGroups[2].fontSize
  /\ Len(CliLineText(lineGroups[2])) >= shortLineLength
  /\ Len(allParagraphs) = 1

(***************************************************************************)
(* C9                                                                      *)
(***************************************************************************)
\* the fragments of the page in hand all lie within the threshold of each
\* other, share one font that is not bold, have a height from 10 to 14 and
\* an average x strictly between 0.35 and 0.65 of the page width
ScenarioA ==
  /\ Kept # {}
  /\ \A i, j \in Kept :
       /\ Abs(RoundY(items[i].y5) - RoundY(items[j].y5)) < yThreshold
       /\ Abs(items[i].y5 - items[j].y5) < 10 * yThreshold
       /\ items[i].fontName = items[j].fontName
  /\ \A i \in Kept :
       /\ ~IsBoldFont(items[i].fontName)
       /\ items[i].height >= smallSize /\ items[i].height <= largeSize
  /\ LET kept == SelectSeq(items, LAMBDA it : ~IsSkipped(it))
     IN  IsCentered(SumX(kept), Len(kept), pageWidth)

\* C9: such a page gives exactly one paragraph: centered, a body paragraph,
\* with exactly one run.
C9_OneCenteredBodyRun ==
  (pc = "push" /\ ScenarioA) =>
    /\ Len(pageParagraphs) = 1
    /\ pageParagraphs[1].alignment = "CENTER"
    /\ pageElements[1].type = "body"
    /\ Len(pageParagraphs[1].children) = 1

(***************************************************************************)
(* C10                                                                     *)
(***************************************************************************)
\* what the sequential converter hands to new Document for the document
SequentialChildren ==
  IF variant = "lib"
    THEN DocumentChildren(JoinPages(PageResults, numPages))
    ELSE JoinPages(PageResults, numPages)

IsFiniteNumber(n) == n \notin {Infinity, NaN}

\* x, y and height of the item are finite numbers
IsFiniteItem(item) ==
  IsFiniteNumber(item.x) /\ IsFiniteNumber(item.y5) /\ IsFiniteNumber(item.height)

\* the page in hand without its items that are not finite
FinitePage == [items |-> SelectSeq(items, IsFiniteItem), width |-> pageWidth]

\* C11: a fragment whose x, y or height is not finite is in no line and in no
\* run, and the paragraphs of the page are those of the page without it.
C11_MalformedDropped ==
  /\ pc = "analyze" =>
       \A i \in DOMAIN items : \A g \in DOMAIN lineGroups :
         ~IsFiniteItem(items[i]) =>
           GroupedItem(items[i]) \notin SeqRange(lineGroups[g].items)
  /\ pc = "push" => pageParagraphs = LibPageParagraphs(FinitePage)

(***************************************************************************)
(* C12                                                                     *)
(***************************************************************************)
Roles == {"heading1", "heading2", "caption", "list", "body"}

Alignments == {"left", "center", "right"}

\* every element and paragraph made so far has a role and an alignment
\* (cli: a heading level or none, CENTER or the default), every line of a lib
\* page has its paragraph, and the first line the cli looks up for the
\* paragraph it closes exists
AllClassified ==
  /\ (variant = "lib" /\ pc \in {"format", "push"}) =>
       /\ Len(pageElements) = Len(lineGroups)
       /\ \A i \in DOMAIN pageElements :
            /\ pageElements[i].type \in Roles
            /\ pageElements[i].alignment \in Alignments
            /\ pageElements[i].runs # <<>>
  /\ (variant = "lib" /\ pc = "push") =>
       /\ Len(pageParagraphs) = Len(pageElements)
       /\ \A i \in DOMAIN pageParagraphs :
            /\ pageParagraphs[i].alignment \in {"LEFT", "CENTER", "RIGHT"}
            /\ pageParagraphs[i].heading \in {"HEADING_1", "HEADING_2", "none"}
  /\ variant = "cli" =>
       /\ \A i \in DOMAIN allParagraphs :
            \/ allParagraphs[i] = PageBreak
            \/ /\ allParagraphs[i].heading \in {"HEADING_1", "HEADING_2", "none"}
               /\ allParagraphs[i].alignment \in {"CENTER", "none"}
               /\ allParagraphs[i].children[1].text # <<>>
       /\ (pc = "lines" /\ lineIdx <= Len(lineGroups)) =>
            lineIdx - Len(currentParagraph) >= 1
  /\ pc = "done" => (children = Output \/ children = <<NoTextParagraph>>)

\* a bound on the steps the conversion has yet to take: the pages to come,
\* the stages of the page in hand and, in the cli, its lines to come
StepsLeft ==
  LET pagesLeft == (numPages - pageNum) * (10 + 2 * MaxTotalItems)
  IN  CASE pc = "done"    -> 0
        [] pc = "loop"    -> 1 + (IF pageNum <= numPages
                                    THEN pagesLeft + 10 + 2 * MaxTotalItems ELSE 0)
        [] pc = "group"   -> pagesLeft + 9 + 2 * MaxTotalItems
        [] pc = "analyze" -> pagesLeft + 5
        [] pc = "format"  -> pagesLeft + 4
        [] pc = "push"    -> pagesLeft + 3
        [] pc = "lines"   -> pagesLeft + 3 + (Len(lineGroups) + 1 - lineIdx)
        [] pc = "next"    -> pagesLeft + 2

\* C12: for every input the conversion runs all stages to the end and hands
\* over a sequence of paragraphs: every step lowers a bound on the steps yet
\* to take, which is 0 only when the document is built, no step looks up a
\* line that is not there, and at every step every paragraph made has a role
\* and an alignment.
C12_RunsToCompletion ==
  /\ []AllClassified
  /\ [](StepsLeft >= 0 /\ (StepsLeft = 0 <=> pc = "done"))
  /\ [][StepsLeft' < StepsLeft]_vars

\* a finished document with a paragraph for an item of height 0 and of an
\* empty font name
C12_Witness ==
  /\ pc = "done"
  /\ Len(children) >= 2
  /\ children # <<NoTextParagraph>>
  /\ \E p \in DOMAIN doc : \E i \in DOMAIN doc[p].items :
       doc[p].items[i].height = 0 /\ doc[p].items[i].fontName = FontName(<<>>)

(***************************************************************************)
(* C13                                                                     *)
(***************************************************************************)
NoDuplicates(s) == \A i, j \in DOMAIN s : i # j => s[i] # s[j]

\* a name is recorded once: when generateUniqueFilename produced it, it was
\* not in the list yet; and every name a download got is in the list
NamesTracked ==
  /\ NoDuplicates(downloadedFilenames)
  /\ SeqRange(downloads) \subseteq SeqRange(downloadedFilenames)

\* C13: in a session of a page, every name generateUniqueFilename produces is
\* new to the tracked list downloadedFilenames, every name a download is
\* given is recorded in the list, and no two downloads of the session are
\* given the same name.
C13_UniqueDownloadNames ==
  /\ NamesTracked
  /\ NoDuplicates(downloads)

(***************************************************************************)
(* C14                                                                     *)
(***************************************************************************)
\* the largest slide number the page accepts
MaxSlideOf(count) == IF count = 0 THEN DefaultMaxSlide ELSE count

\* an entry of the slide indices field that names a slide: a number within
\* 1..slideCount
ValidEntry(s, count) ==
  /\ parseInt(Trim(s)) # NaN
  /\ parseInt(Trim(s)) >= 1
  /\ parseInt(Trim(s)) <= MaxSlideOf(count)

\* the valid entries of the field, in order, counted from 0
ValidIndices(field, count) ==
  LET valid == SelectSeq(SplitComma(field), LAMBDA s : ValidEntry(s, count))
  IN  [i \in DOMAIN valid |-> parseInt(Trim(valid[i])) - 1]

\* C14: the slide indices handed to splitPptFile and extractSlidesAsImages
\* are the valid entries of the slide indices field (numbers within
\* 1..slideCount), counted from 0; the invalid entries are left out.
C14_InvalidIndicesFiltered ==
  \A i \in DOMAIN calls :
    calls[i].fn \in {"splitPptFile", "extractSlidesAsImages"}
      => calls[i].indices = ValidIndices(slideIndices, slideCount)

(***************************************************************************)
(* C15                                                                     *)
(***************************************************************************)
MinPasswordLength == 4

\* C15: protectPptFile is never called with a password of fewer than 4
\* characters; a protect run with such a password ends with the error set.
C15_ShortPasswordRejected ==
  /\ \A i \in DOMAIN calls :
       calls[i].fn = "protectPptFile"
         => Len(calls[i].password) >= MinPasswordLength
  /\ (/\ operation = "ppt-protect"
      /\ Len(files) = 1
      /\ Len(pptPassword) < MinPasswordLength
      /\ (calls # <<>> \/ error # NoError))
       => error # NoError /\ calls = <<>>

(***************************************************************************)
(* C16                                                                     *)
(***************************************************************************)
\* the clustering threshold of the converter, in the unit of its anchors
ThresholdOf(v) == IF v = "lib" THEN yThreshold ELSE cliYThreshold

\* the rounded y the converter computes for an item
AnchorOf(v, item) == IF v = "lib" THEN RoundY(item.y5) ELSE CliRoundY(item.y5)

\* C16: whatever the order of the fragments, no two lines of the page in hand
\* have anchors that differ by less than the clustering threshold.
C16_AnchorsApart ==
  \A g, h \in DOMAIN lineGroups :
    g # h => Abs(lineGroups[g].y - lineGroups[h].y) >= ThresholdOf(variant)

\* a page clustered into two lines or more, fewer than its fragments have
\* rounded y values: some fragment joined a line of another anchor
C16_Witness ==
  /\ pc \in {"analyze", "lines"}
  /\ Len(lineGroups) >= 2
  /\ Len(lineGroups) < Cardinality({AnchorOf(variant, items[i]) : i \in DOMAIN items})

(***************************************************************************)
(* C17                                                                     *)
(***************************************************************************)
Bullet == "U+2022"

\* the assembled text of an element: the texts of its runs put together
ElementText(e) == Flatten([i \in DOMAIN e.runs |-> e.runs[i].text])

\* a text that begins with a bullet, a dash or an asterisk and whitespace
\* after it
StartsWithMarker(text) ==
  Len(text) >= 2 /\ text[1] \in {Bullet, "-", "*"} /\ IsSpace(text[2])

\* the heading rules and the caption rule, on what an element records
IsHeading1(e) == e.fontSize > veryLargeSize /\ (e.alignment = "center" \/ e.isBold)

IsHeading2(e) == e.fontSize > largeSize /\ (e.isBold \/ e.alignment = "center")

IsCaption(e) == e.fontSize < smallSize

\* the role the ordered rules give an element, the first match winning
RoleByRules(e) ==
  IF IsHeading1(e) THEN "heading1"
  ELSE IF IsHeading2(e) THEN "heading2"
  ELSE IF IsCaption(e) THEN "caption"
  ELSE IF StartsWithMarker(ElementText(e)) THEN "list"
  ELSE "body"

\* C17: every element of the page has the role that the ordered rules give,
\* the first match winning: Heading1 for a font size above 18 when centered
\* or bold, else Heading2 for a font size above 14 when bold or centered,
\* else Caption for a font size below 10, else ListItem for a text that
\* begins with a bullet, a dash or an asterisk and whitespace, else Body.
C17_FirstMatchWins ==
  \A i \in DOMAIN pageElements : pageElements[i].type = RoleByRules(pageElements[i])

\* the rules before the list rule: headings and captions are as the rules
\* say, and nothing else is a heading or a caption
HeadingsAndCaptionsByRules ==
  \A i \in DOMAIN pageElements :
    LET e == pageElements[i]
    IN  /\ e.type = "heading1" <=> IsHeading1(e)
        /\ e.type = "heading2" <=> ~IsHeading1(e) /\ IsHeading2(e)
        /\ e.type = "caption" <=> ~IsHeading1(e) /\ ~IsHeading2(e) /\ IsCaption(e)
        /\ (Len(e.runs) = 1 /\ e.runs[1].bold /\ e.alignment = "center"
              /\ e.fontSize = 22)
             => e.type = "heading1"

(***************************************************************************)
(* C18                                                                     *)
(***************************************************************************)
\* C18: an element that is neither a heading nor a caption by the rules is a
\* ListItem when its text begins with a bullet, a dash or an asterisk and
\* whitespace, and no element whose text does not begin so is a ListItem.
C18_ListItemIffMarker ==
  \A i \in DOMAIN pageElements :
    LET e == pageElements[i]
    IN  /\ (~IsHeading1(e) /\ ~IsHeading2(e) /\ ~IsCaption(e)
             /\ StartsWithMarker(ElementText(e)))
            => e.type = "list"
        /\ ~StartsWithMarker(ElementText(e)) => e.type # "list"

(***************************************************************************)
(* C19                                                                     *)
(***************************************************************************)
\* the CLI segmenter is about to take the line lineIdx of the page in hand
LineTaken == variant = "cli" /\ pc = "lines" /\ lineIdx <= Len(lineGroups)

\* the gap from the preceding line to line k exceeds 1.5 x the font size of
\* line k
LargeGapTo(k) ==
  2 * (lineGroups[k - 1].y - lineGroups[k].y) > 3 * lineGroups[k].fontSize

\* the font sizes of line k and of the preceding line differ by more than 3
FontSizeDiffers(k) ==
  Abs(lineGroups[k].fontSize - lineGroups[k - 1].fontSize) > fontSizeDelta

ShortLine(k) == Len(CliLineText(lineGroups[k])) < shortLineLength

\* the step starts a new paragraph with the line taken, closing the
\* paragraph in progress if there is one
StartsParagraph ==
  /\ currentParagraph' = <<CliLineText(lineGroups[lineIdx])>>
  /\ Len(allParagraphs') = Len(allParagraphs)
                             + (IF currentParagraph = <<>> THEN 0 ELSE 1)

\* the step appends the line taken to the paragraph in progress
AppendsLine ==
  /\ currentParagraph' = Append(currentParagraph, CliLineText(lineGroups[lineIdx]))
  /\ allParagraphs' = allParagraphs

\* C19 as stated: the segmenter starts a new paragraph at a line if and only
\* if the line is the first of the page, or the gap to the preceding line
\* exceeds 1.5 x the line's font size, or the font size differs from the
\* preceding line's by more than 3, or the preceding line's text is shorter
\* than 50 characters; otherwise it appends the line to the paragraph in
\* progress.
C19_StartsNewIffPrecedingShort ==
  [][LineTaken =>
       IF \/ lineIdx = 1
          \/ LargeGapTo(lineIdx)
          \/ FontSizeDiffers(lineIdx)
          \/ ShortLine(lineIdx - 1)
         THEN StartsParagraph
         ELSE AppendsLine]_vars

\* C19 as amended: the CLI segmenter starts a new paragraph at a line if and
\* only if the line is the first of the page, or the gap to the preceding
\* line exceeds 1.5 x the line's font size, or the preceding line's font size
\* is not 0 and differs from the line's by more than 3, or the text of the
\* line itself is shorter than 50 characters; otherwise it appends the line
\* to the paragraph in progress.  In pdfTools.ts every line is a paragraph of
\* its own.
C19_StartsNewIffLineShort ==
  /\ [][LineTaken =>
          IF \/ lineIdx = 1
             \/ LargeGapTo(lineIdx)
             \/ (lineGroups[lineIdx - 1].fontSize # 0 /\ FontSizeDiffers(lineIdx))
             \/ ShortLine(lineIdx)
            THEN StartsParagraph
            ELSE AppendsLine]_vars
  /\ []((variant = "lib" /\ pc = "push") => Len(pageParagraphs) = Len(lineGroups))

\* cli: a long line has just been appended to a paragraph that began with a
\* short line
C19_Witness ==
  /\ variant = "cli" /\ pc = "lines" /\ lineIdx = 3
  /\ Len(currentParagraph) = 2
  /\ ShortLine(1) /\ ~ShortLine(2)

(***************************************************************************)
(* C20                                                                     *)
(***************************************************************************)
\* the heading a font size stands for
HeadingBySize(fontSize) ==
  IF fontSize > cliHeading1Size THEN "HEADING_1"
  ELSE IF fontSize > cliHeading2Size THEN "HEADING_2"
  ELSE "none"

\* the alignment the fragments of a line stand for, in a paragraph of the
\* given text
AlignmentByLine(line, text) ==
  IF /\ SumX(line.items) * 100 > pageWidth * cliCenterFrom * Len(line.items)
     /\ SumX(line.items) * 100 < pageWidth * cliCenterTo * Len(line.items)
     /\ Len(text) < cliCenterMaxLength
    THEN "CENTER" ELSE "none"

\* C20: every paragraph the CLI segmenter emits for a page, the one flushed
\* at the end of the page included, has the heading of the font size of its
\* own first line and the alignment of its first line's fragments.
C20_ClassifiedFromFirstLine ==
  [][(variant = "cli" /\ pc = "lines"
        /\ Len(allParagraphs') = Len(allParagraphs) + 1)
       => LET first == lineGroups[lineIdx - Len(currentParagraph)]
              p     == allParagraphs'[Len(allParagraphs')]
          IN  /\ p.heading = HeadingBySize(first.fontSize)
              /\ p.alignment = AlignmentByLine(first, p.children[1].text)]_vars

\* the paragraphs closed inside the loop over the lines
FlushedInLoopFromFirstLine ==
  [][(LineTaken /\ Len(allParagraphs') = Len(allParagraphs) + 1)
       => LET first == lineGroups[lineIdx - Len(currentParagraph)]
              p     == allParagraphs'[Len(allParagraphs')]
          IN  /\ p.heading = HeadingBySize(first.fontSize)
              /\ p.alignment = AlignmentByLine(first, p.children[1].text)
              /\ CliLineText(first) = currentParagraph[1]]_vars

(***************************************************************************)
(* C21                                                                     *)
(***************************************************************************)
\* the texts of the lines from a to b of the page in hand, joined as a
\* paragraph joins them
LinesJoined(a, b) ==
  JoinSpace([k \in 1..(b - a + 1) |-> CliLineText(lineGroups[a + k - 1])])

\* paragraphs ps cover the lines 1..n in consecutive blocks: last[j] is the
\* last line of paragraph j
CoversLines(ps, n) ==
  \E last \in [DOMAIN ps -> 1..n] :
    /\ \A j \in DOMAIN ps :
         LET from == IF j = 1 THEN 1 ELSE last[j - 1] + 1
         IN  /\ from <= last[j]
             /\ ps[j].children[1].text = LinesJoined(from, last[j])
    /\ ps # <<>> => last[Len(ps)] = n

\* C21: the paragraphs emitted for a page partition its lines: they are
\* blocks of consecutive lines, top line first, that together hold every
\* line once; while the page is segmented the emitted paragraphs and the
\* paragraph in progress do so for the lines taken, and at the end of the
\* page the paragraph in progress has been emitted.  In pdfTools.ts
\* paragraph k is line k.
C21_LinesPartitioned ==
  /\ (variant = "cli" /\ pc = "lines") =>
       /\ CoversLines(allParagraphs, lineIdx - 1 - Len(currentParagraph))
       /\ Len(currentParagraph) <= lineIdx - 1
       /\ \A k \in DOMAIN currentParagraph :
            currentParagraph[k] =
              CliLineText(lineGroups[lineIdx - 1 - Len(currentParagraph) + k])
       /\ (lineIdx > 1 => currentParagraph # <<>>)
  /\ (variant = "cli" /\ pc = "next") =>
       /\ CoversLines(allParagraphs, Len(lineGroups))
       /\ (lineGroups # <<>> => allParagraphs # <<>>)
  /\ (variant = "lib" /\ pc = "push") =>
       /\ Len(pageParagraphs) = Len(lineGroups)
       /\ \A k \in DOMAIN lineGroups :
            ParagraphText(pageParagraphs[k]) = LineFullText(lineGroups[k].items)

\* cli: a page of three lines has been emitted as two paragraphs
C21_Witness ==
  /\ variant = "cli" /\ pc = "next"
  /\ Len(lineGroups) = 3
  /\ Len(allParagraphs) = 2

(***************************************************************************)
(* C22                                                                     *)
(***************************************************************************)
\* two runs of a paragraph of the same bold, italic and font family
SameStyle(r1, r2) ==
  r1.bold = r2.bold /\ r1.italics = r2.italics /\ r1.font = r2.font

\* C22: the runs of every paragraph are maximal: no two adjacent runs of a
\* paragraph have the same bold, italic and font family.
C22_RunsMaximal ==
  \A k \in DOMAIN pageParagraphs :
    \A i \in 1..(Len(pageParagraphs[k].children) - 1) :
      ~SameStyle(pageParagraphs[k].children[i], pageParagraphs[k].children[i + 1])

(***************************************************************************)
(* C23                                                                     *)
(***************************************************************************)
\* next.x - (prev.x + prev.width) for the fragments i - 1 and i of a line
GapBefore(its, i) == its[i].x - (its[i - 1].x + its[i - 1].width)

\* text is the fragments' texts with one space before the fragments b marks
TextWithSpaces(its, str(_), b) ==
  Flatten([i \in DOMAIN its |->
             (IF i > 1 /\ b[i] THEN <<" ">> ELSE <<>>) \o str(its[i])])

\* the insertion of spaces into the text of a line of fragments is monotone
\* in the gap: the text has at most one space between two adjacent
\* fragments, none where the gap is zero or negative, and a space wherever
\* the gap is larger than a gap that got one
MonotoneSpaces(its, str(_), text) ==
  \E b \in [DOMAIN its -> BOOLEAN] :
    /\ text = TextWithSpaces(its, str, b)
    /\ \A i \in 2..Len(its) :
         /\ GapBefore(its, i) <= 0 => ~b[i]
         /\ \A j \in 2..Len(its) :
              (b[i] /\ GapBefore(its, j) > GapBefore(its, i)) => b[j]

\* C23: inserting a space between adjacent fragments of a line is monotone
\* in the horizontal gap next.x - (prev.x + prev.width): at most one space is
\* inserted between two fragments, never for a zero or negative gap, and
\* always for a gap larger than one that got a space.
C23_SpaceMonotoneInGap ==
  /\ (variant = "lib" /\ pc = "format") =>
       \A k \in DOMAIN pageElements :
         MonotoneSpaces(lineGroups[k].items, LAMBDA it : it.str,
                        ElementText(pageElements[k]))
  /\ (variant = "cli" /\ pc = "lines" /\ lineIdx > 1) =>
       MonotoneSpaces(lineGroups[lineIdx - 1].items, LAMBDA it : it.text,
                      currentParagraph[Len(currentParagraph)])

\* a line of three fragments with a space before the last one only
C23_Witness ==
  /\ variant = "lib" /\ pc = "format"
  /\ Len(pageElements) = 1
  /\ Len(lineGroups[1].items) = 3
  /\ Len(pageElements[1].runs) = 4
  /\ pageElements[1].runs[3] = SpaceRun

(***************************************************************************)
(* C24                                                                     *)
(***************************************************************************)
AscendingX(its) == \A i \in 1..(Len(its) - 1) : its[i].x <= its[i + 1].x

DescendingY(gs) == \A k \in 1..(Len(gs) - 1) : gs[k].y >= gs[k + 1].y

\* the texts of the fragments of a line, in the order the line holds them
TextsInOrder(its, str(_)) == Flatten([i \in DOMAIN its |-> str(its[i])])

\* a text without its spaces
WithoutSpaces(text) == SelectSeq(text, LAMBDA c : c # " ")

\* C24: whatever the order of the input, the lines of the page in hand are
\* in descending order of anchor y, and where the runs and the text of a line
\* are assembled its fragments are in ascending order of x: the assembled
\* text is the fragments' texts in that order.
C24_SortedLinesAndFragments ==
  /\ DescendingY(lineGroups)
  /\ (variant = "lib" /\ pc = "format") =>
       \A k \in DOMAIN pageElements :
         /\ AscendingX(lineGroups[k].items)
         /\ WithoutSpaces(ElementText(pageElements[k]))
              = WithoutSpaces(TextsInOrder(lineGroups[k].items, LAMBDA it : it.str))
  /\ (variant = "cli" /\ pc = "lines" /\ lineIdx > 1) =>
       /\ AscendingX(lineGroups[lineIdx - 1].items)
       /\ WithoutSpaces(currentParagraph[Len(currentParagraph)])
            = WithoutSpaces(TextsInOrder(lineGroups[lineIdx - 1].items,
                                         LAMBDA it : it.text))

\* lib: a page given bottom line first and right fragment first, analyzed
C24_Witness ==
  /\ variant = "lib" /\ pc = "format"
  /\ Len(items) = 3
  /\ Len(lineGroups) = 2
  /\ items[1].x > items[2].x
  /\ RoundY(items[1].y5) < RoundY(items[3].y5)
  /\ Len(lineGroups[2].items) = 2

(***************************************************************************)
(* C25                                                                     *)
(***************************************************************************)
\* the alignment of the average x of a line's fragments on the page in hand:
\* center strictly inside (0.35 W, 0.65 W), right above 0.65 W, else left
AlignmentByAverage(its) ==
  LET sumX == SumX(its)
      n    == Len(its)
  IN  IF sumX * 100 > pageWidth * centerFrom * n /\ sumX * 100 < pageWidth * centerTo * n
        THEN "center"
      ELSE IF sumX * 100 > pageWidth * centerTo * n THEN "right"
      ELSE "left"

\* the alignment of a paragraph of the CLI script: one without the option
\* is left-aligned
CliAlignment(p) == IF p.alignment = "CENTER" THEN "center" ELSE "left"

\* pdfTools.ts: every element has the alignment of its line's average x
LibAlignedByAverage ==
  (variant = "lib" /\ pc = "format") =>
    \A k \in DOMAIN pageElements :
      /\ pageElements[k].alignment = AlignmentByAverage(lineGroups[k].items)
      /\ pageElements[k].alignment \in {"left", "center", "right"}

\* C25: every paragraph has exactly one alignment, that of the average x of
\* its first line's fragments against the page width W: Center for an
\* average strictly inside (0.35 W, 0.65 W), Right for one above 0.65 W, Left
\* for every other.
C25_AlignmentByAverageX ==
  /\ []LibAlignedByAverage
  /\ [][(variant = "cli" /\ pc = "lines"
           /\ Len(allParagraphs') = Len(allParagraphs) + 1)
          => CliAlignment(allParagraphs'[Len(allParagraphs')])
               = AlignmentByAverage(lineGroups[lineIdx - Len(currentParagraph)].items)]_vars

(***************************************************************************)
(* C26                                                                     *)
(***************************************************************************)
\* the StateHistory object after the step
HistoryAfter == StateHistory(history', currentIndex', maxHistorySize')

\* the step is a clearAll of a non-empty file list
ClearsFiles == files # <<>> /\ files' = <<>> /\ history' # history

\* after a clearAll of a non-empty file list, Undo is available
UndoAvailableAfterClear == [][ClearsFiles => canUndo(HistoryAfter)]_vars

\* C26: after clearAll is invoked with a non-empty file list, Undo is
\* available and invoking it restores the files, operation, pageRanges and
\* totalPages that were current immediately before the clear.
C26_UndoRestoresCleared ==
  [][ClearsFiles =>
       /\ canUndo(HistoryAfter)
       /\ undo(HistoryAfter).returned = CurrentSnapshot]_vars

(***************************************************************************)
(* C27                                                                     *)
(***************************************************************************)
\* C27: for a StateHistory with maxHistorySize >= 1, after any sequence of
\* push, undo, redo and clear, the history holds at most maxHistorySize
\* entries, currentIndex is -1 exactly when the history is empty and
\* otherwise lies in 0 .. length - 1, and getCurrentState returns null only
\* when the history is empty.
C27_HistoryWellFormed ==
  maxHistorySize >= 1 =>
    /\ size(historyRef) <= maxHistorySize
    /\ (currentIndex = -1) <=> (history = <<>>)
    /\ history # <<>> => (0 <= currentIndex /\ currentIndex <= Len(history) - 1)
    /\ getCurrentState(historyRef) = NullState => history = <<>>

\* a full history in which both undo and redo are possible
C27_Witness ==
  /\ uiPage = "none"
  /\ maxHistorySize >= 3
  /\ Len(history) = maxHistorySize
  /\ canUndo(historyRef)
  /\ canRedo(historyRef)

(***************************************************************************)
(* C28                                                                     *)
(***************************************************************************)
\* how many of the oldest entries push(s) drops in the state in hand
Trimmed == IF currentIndex + 2 > maxHistorySize THEN 1 ELSE 0

PagesNotIn(count, pages) ==
  LET Stays(n) == n \notin SeqRange(pages)
  IN  SelectSeq([i \in 1..count |-> i], Stays)

\* the list has no repeated number
WithoutRepeats(pages) ==
  \A i, j \in DOMAIN pages : pages[i] = pages[j] => i = j

\* removePagesFromPdf removes exactly the pages listed when no number repeats
RemovesListedWithoutRepeats ==
  (removePc = "returned" /\ WithoutRepeats(sanitizedPages)) =>
    remaining = PagesNotIn(pageCount, sanitizedPages)

\* C29: removePagesFromPdf(file, pagesToRemove) removes exactly the pages
\* whose 1-based numbers occur in pagesToRemove, each at most once, and keeps
\* every other page in its original order, for any list, unsorted lists and
\* lists with repeated numbers included.
C29_RemovesExactlyListed ==
  removePc = "returned" => remaining = PagesNotIn(pageCount, sanitizedPages)

(***************************************************************************)
(* C30                                                                     *)
(***************************************************************************)
\* a run of a process handler ends without a download or a result
EndsWithoutResult ==
  /\ processing
  /\ ~processing'
  /\ downloads' = downloads
  /\ ~resultUrl'

\* a handler that leaves through an early return or a throw leaves with
\* processing false, and a run that ends without a result has set a message
ProcessingResetOnError ==
  [][/\ (error' # NoError /\ error' # error) => ~processing'
     /\ EndsWithoutResult => error' # NoError]_vars

\* C30: every invocation of a process handler that sets processing to true
\* sets it back to false on every path (success, early return inside the try
\* block, the extract-images return, a thrown error), and a thrown error
\* sets the error state to a message.
C30_ProcessingReset ==
  /\ processing ~> ~processing
  /\ ProcessingResetOnError

\* a run has ended with a thrown error after processing was set
C30_Witness ==
  /\ error \in {"An error occurred during processing.", "Processing failed."}
  /\ ~processing
  /\ calls # <<>> \/ uiPage = "tools"

====
